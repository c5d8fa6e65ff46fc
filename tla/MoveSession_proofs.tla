------------------------ MODULE MoveSession_proofs ------------------------
(***************************************************************************)
(* Type correctness of MoveSession and NoDoubleMove, for every layout,     *)
(* every set of adapters, every length of their chains and every number of *)
(* failures and interferences.                                             *)
(*                                                                         *)
(* NoDoubleMove looks at a finished request; OneEffect says for each step  *)
(* of a request in progress whether its effect has taken place yet.  That  *)
(* the steps are well-typed needs SessionOK: the adapter behind a probe or *)
(* a merge is a layer of the source window's chain.                        *)
(*                                                                         *)
(* A move request keeps its contract: MoveSession implements MoveContract, *)
(* where an adapter that merges counts the panes of its window.  That it   *)
(* is so restricted is no weakness of the proof: an adapter that merges    *)
(* without counting closes a window over other panes                       *)
(* (move_closes_shared_window).                                            *)
(*                                                                         *)
(* And what it comes to: no pane is left without a window to come, the     *)
(* focus comes back, what is placed is the window just torn out, and a     *)
(* probe among the panes of the window is undone.                          *)
(***************************************************************************)
EXTENDS MoveSession, FiniteSetTheorems, TLAPS

----------------------------------------------------------------------------
(* The effect of a request                                                 *)

\* Nothing has been moved yet, or only by calls that said they failed ...
Unmoved(g) == g \in History /\ g.relocations <= g.late /\ g.by = "none"

\* ... and the effect of the request has taken place.
MovedOnce(g) == g \in History /\ g.relocations <= g.late + 1 /\ g.by = "none"

Ended(g) ==
  /\ g \in History
  /\ g.relocations + (IF g.by = "fallback" THEN 1 ELSE 0) <= g.late + 1

Acted == {"cleanupFocus", "cleanupClose", "spawn", "poll", "focusNew",
          "placeFocus", "placeRead", "place"}
Undecided == PcValues \ (Acted \cup {"idle"})

\* NoDoubleMove made inductive: where the effect stands at each step.
OneEffect ==
  /\ pc \in Undecided => Unmoved(h)
  /\ pc \in Acted => MovedOnce(h)
  /\ pc = "idle" => Ended(h)

\* Doing nothing is within the budget of one effect.
LEMMA UnmovedIsMovedOnce ==
  ASSUME NEW g, Unmoved(g)
  PROVE  MovedOnce(g)
  BY DEF Unmoved, MovedOnce, History

\* Both notions depend on three fields of the history only.
LEMMA FieldsKept ==
  ASSUME NEW hist \in History, NEW g \in History,
         g.relocations = hist.relocations, g.late = hist.late, g.by = hist.by
  PROVE  (Unmoved(hist) => Unmoved(g)) /\ (MovedOnce(hist) => MovedOnce(g))
  BY DEF Unmoved, MovedOnce

\* A request begins with nothing moved (Begin, BeginFails).
LEMMA FreshUnmoved ==
  ASSUME NEW w \in Window \cup {NoWindow}
  PROVE  Unmoved(Fresh(w)) /\ Ended([Fresh(w) EXCEPT !.result = "wmErr"])
<1>1. Fresh(w) \in History
  BY DEF Fresh, History
<1>2. Unmoved(Fresh(w))
  BY <1>1 DEF Fresh, Unmoved
<1>3. [Fresh(w) EXCEPT !.result = "wmErr"] \in History
  BY <1>1 DEF History
<1>4. LET g == [Fresh(w) EXCEPT !.result = "wmErr"]
      IN  g.relocations = 0 /\ g.late = 0 /\ g.by = "none"
  BY DEF Fresh
<1>. QED
  BY <1>2, <1>3, <1>4 DEF Ended

\* Ending a request within the budget keeps the promise.
LEMMA FinishEnds ==
  ASSUME NEW hist, MovedOnce(hist), NEW r \in {"ok", "appErr", "wmErr"}, Finish(hist, r)
  PROVE  pc' = "idle" /\ Ended(h')
<1>1. hist.relocations \in Nat /\ hist.late \in Nat
  BY DEF MovedOnce, History
<1>. QED
  BY <1>1 DEF Finish, MovedOnce, Ended, History

\* A successful call is the one effect; one that reports failure after taking effect is counted as late.
LEMMA CountedEffect ==
  ASSUME Unmoved(h)
  PROVE  MovedOnce(Counted(FALSE)) /\ Unmoved(Counted(TRUE))
<1>. DEFINE With(r, l) == [h EXCEPT !.relocations = r, !.late = l]
<1>1. /\ h.relocations \in Nat /\ h.late \in Nat
      /\ h.relocations <= h.late /\ h.by = "none"
  BY DEF History, Unmoved
<1>2. Counted(FALSE) = With(h.relocations + 1, h.late)
  BY DEF Counted
<1>3. Counted(TRUE) = With(h.relocations + 1, h.late + 1)
  BY DEF Counted
<1>4. ASSUME NEW r \in Nat, NEW l \in Nat
      PROVE  /\ With(r, l) \in History /\ With(r, l).by = h.by
             /\ With(r, l).relocations = r /\ With(r, l).late = l
  BY <1>4 DEF History, Unmoved
<1>. HIDE DEF With
<1>5. MovedOnce(With(h.relocations + 1, h.late))
  BY <1>1, <1>4 DEF MovedOnce
<1>6. Unmoved(With(h.relocations + 1, h.late + 1))
  BY <1>1, <1>4 DEF Unmoved
<1>. QED
  BY <1>2, <1>3, <1>5, <1>6

\* The same for a step that may also be recorded as stray.
LEMMA RelocatedEffect ==
  ASSUME Unmoved(h)
  PROVE  MovedOnce(Relocated(FALSE)) /\ Unmoved(Relocated(TRUE))
<1>1. ASSUME NEW hist \in History, NEW b \in BOOLEAN
      PROVE  LET g == [hist EXCEPT !.stray = b]
             IN  /\ g \in History /\ g.by = hist.by
                 /\ g.relocations = hist.relocations /\ g.late = hist.late
  BY <1>1 DEF History
<1>2. ASSUME NEW late \in BOOLEAN
      PROVE  (Counted(late).stray \/ Displaced) \in BOOLEAN
  OBVIOUS
<1>3. Counted(FALSE) \in History /\ Counted(TRUE) \in History
  BY CountedEffect DEF Unmoved, MovedOnce
<1>. QED
  BY <1>1, <1>2, <1>3, CountedEffect, FieldsKept DEF Relocated

\* Recording a disturbance changes neither notion.
LEMMA DisturbedEffect ==
  ASSUME NEW hist \in History, NEW b \in BOOLEAN
  PROVE  /\ Unmoved(hist) => Unmoved(Disturbed(hist, b))
         /\ MovedOnce(hist) => MovedOnce(Disturbed(hist, b))
<1>1. ASSUME NEW c \in BOOLEAN
      PROVE  LET g == [hist EXCEPT !.disturbed = c]
             IN  /\ g \in History /\ g.by = hist.by
                 /\ g.relocations = hist.relocations /\ g.late = hist.late
  BY <1>1 DEF History
<1>2. (hist.disturbed \/ b) \in BOOLEAN
  OBVIOUS
<1>. QED
  BY <1>1, <1>2, FieldsKept DEF Disturbed

\* Acts of the environment keep OneEffect.
LEMMA DisturbEffect ==
  ASSUME OneEffect, pc \in PcValues, UNCHANGED pc, Disturb \/ UNCHANGED h
  PROVE  OneEffect'
<1>1. CASE UNCHANGED h
  BY <1>1 DEF OneEffect
<1>2. CASE Disturb /\ pc = "idle"
  BY <1>2 DEF OneEffect, Disturb, Acted, Undecided
<1>3. CASE Disturb /\ pc # "idle"
  <2>1. h \in History
    BY <1>3 DEF OneEffect, Unmoved, MovedOnce, Undecided
  <2>. QED
    BY <1>3, <2>1, DisturbedEffect DEF OneEffect, Disturb
<1>. QED
  BY <1>1, <1>2, <1>3

\* The fallback is the one effect; a placement adds nothing to the count.
LEMMA ShiftedEffect ==
  ASSUME h \in History, focus \in Window \cup {NoWindow}
  PROVE  /\ MovedOnce(h) => Ended([Shifted("placement") EXCEPT !.result = "ok"])
         /\ Unmoved(h) => Ended([Shifted("fallback") EXCEPT !.result = "ok"])
<1>1. h.relocations \in Nat /\ h.late \in Nat
  BY DEF History
<1>2. ASSUME NEW why \in {"placement", "fallback"}
      PROVE  LET g == [Shifted(why) EXCEPT !.result = "ok"]
             IN  /\ g \in History /\ g.by = why
                 /\ g.relocations = h.relocations /\ g.late = h.late
  BY DEF Shifted, History
<1>. QED
  BY <1>1, <1>2 DEF MovedOnce, Unmoved, Ended

\* An unread snapshot changes neither notion.
LEMMA SnapshotEffect ==
  ASSUME Unmoved(h)
  PROVE  Unmoved([h EXCEPT !.snapOk = FALSE])
  BY DEF Unmoved, History

\* Both notions include the type of the history.
LEMMA InHistory ==
  ASSUME NEW g, Unmoved(g) \/ MovedOnce(g)
  PROVE  g \in History
  BY DEF Unmoved, MovedOnce

\* Every step of the request and of its environment keeps OneEffect.
LEMMA EffectStep ==
  ASSUME TypeOK, OneEffect, [Next]_vars
  PROVE  OneEffect'
<1>. USE UnmovedIsMovedOnce, InHistory DEF TypeOK, ScreenOK, ControlOK, OneEffect, Undecided, Acted, PcValues
<1>1. CASE Begin
  BY <1>1, FreshUnmoved DEF Begin
<1>2. CASE BeginFails
  BY <1>2, FreshUnmoved DEF BeginFails
<1>3. CASE ChainExhausted
  BY <1>3 DEF ChainExhausted, Goto
<1>4. CASE LayerDecides
  BY <1>4, FinishEnds, RelocatedEffect, CountedEffect DEF LayerDecides, Goto
<1>5. CASE LayerFails
  BY <1>5, FinishEnds, RelocatedEffect, CountedEffect DEF LayerFails
<1>6. CASE Unmerged
  BY <1>6 DEF Unmerged, StartProbe, NextLayer, Goto
<1>7. CASE ProbeFocus
  BY <1>7 DEF ProbeFocus, Goto, ProbeNone
<1>8. CASE ProbeRead
  BY <1>8 DEF ProbeRead, Goto, ProbeNone
<1>9. CASE ProbeReadFails
  BY <1>9, FinishEnds, DisturbedEffect DEF ProbeReadFails
<1>10. CASE ProbeRestore
  BY <1>10, FinishEnds, DisturbedEffect DEF ProbeRestore, Goto
<1>11. CASE ProbeMatch
  BY <1>11 DEF ProbeMatch, Goto, NextLayer, ProbeNone
<1>12. CASE Refocus
  BY <1>12, DisturbedEffect DEF Refocus
<1>13. CASE PrepareMerge
  BY <1>13 DEF PrepareMerge, Goto, StartProbe
<1>14. CASE InPlaceFocus
  BY <1>14 DEF InPlaceFocus, StartProbe, Goto
<1>15. CASE InPlaceFocusFails
  BY <1>15, FinishEnds DEF InPlaceFocusFails
<1>16. CASE InPlaceRead
  BY <1>16, DisturbedEffect DEF InPlaceRead, Goto
<1>17. CASE InPlaceLeftWindow
  BY <1>17, DisturbedEffect DEF InPlaceLeftWindow
<1>18. CASE InPlaceReadFails
  BY <1>18, FinishEnds DEF InPlaceReadFails
<1>19. CASE MergeInPlace
  BY <1>19, FinishEnds, CountedEffect DEF MergeInPlace
<1>20. CASE MergeInPlaceFails
  <2>1. PICK hist \in {h, Counted(TRUE)}, restored \in BOOLEAN : h' = Disturbed(hist, ~restored)
    BY <1>20 DEF MergeInPlaceFails
  <2>2. Unmoved(hist) /\ pc' = "unmerged"
    BY <1>20, CountedEffect DEF MergeInPlaceFails
  <2>. QED
    BY <2>1, <2>2, DisturbedEffect
<1>21. CASE Merge
  BY <1>21, RelocatedEffect, CountedEffect DEF Merge
<1>22. CASE MergeFails
  BY <1>22, RelocatedEffect, CountedEffect DEF MergeFails
<1>23. CASE CleanupFocus
  BY <1>23 DEF CleanupFocus, Goto
<1>24. CASE CleanupClose
  BY <1>24, FinishEnds DEF CleanupClose, LoggedError
<1>25. CASE Snapshot
  BY <1>25, SnapshotEffect DEF Snapshot
<1>26. CASE MoveOut
  BY <1>26, RelocatedEffect, CountedEffect DEF MoveOut
<1>27. CASE MoveOutFails
  BY <1>27, FinishEnds, RelocatedEffect, CountedEffect DEF MoveOutFails
<1>28. CASE Spawn
  BY <1>28, FinishEnds DEF Spawn, Goto
<1>29. CASE Poll
  BY <1>29 DEF Poll, Goto
<1>30. CASE PollsDone
  BY <1>30 DEF PollsDone, Goto
<1>31. CASE FocusNew
  BY <1>31 DEF FocusNew, Goto
<1>32. CASE PlaceFocus
  BY <1>32, FinishEnds DEF PlaceFocus, Goto, LoggedError
<1>33. CASE PlaceRead
  BY <1>33, FinishEnds DEF PlaceRead, Goto, LoggedError
<1>34. CASE Place
  BY <1>34, FinishEnds, ShiftedEffect DEF Finish, Place, LoggedError
<1>35. CASE RouteRead
  BY <1>35, FinishEnds DEF RouteRead, StartProbe, Goto
<1>36. CASE Transfer
  BY <1>36, RelocatedEffect, CountedEffect, FinishEnds DEF Transfer, TransferDone, Goto
<1>37. CASE WmMove
  BY <1>37, FinishEnds, ShiftedEffect DEF Finish, WmMove
<1>38. CASE UserFocuses
  BY <1>38, DisturbEffect, DisturbedEffect DEF UserFocuses
<1>39. CASE UserCloses
  BY <1>39, DisturbEffect, DisturbedEffect DEF UserCloses
<1>40. CASE StrangerAppears
  BY <1>40, DisturbEffect, DisturbedEffect DEF StrangerAppears
<1>41. CASE WindowAppears
  BY <1>41, DisturbEffect, DisturbedEffect DEF WindowAppears
<1>42. CASE EmptyVanishes
  BY <1>42, DisturbEffect, DisturbedEffect DEF EmptyVanishes
<1>43. CASE UNCHANGED vars
  BY <1>43 DEF vars
<1>. QED
  BY <1>1, <1>2, <1>3, <1>4, <1>5, <1>6, <1>7, <1>8, <1>9, <1>10, <1>11, <1>12, <1>13, <1>14, <1>15, <1>16, <1>17, <1>18, <1>19, <1>20, <1>21, <1>22, <1>23, <1>24, <1>25, <1>26, <1>27, <1>28, <1>29, <1>30, <1>31, <1>32, <1>33, <1>34, <1>35, <1>36, <1>37, <1>38, <1>39, <1>40, <1>41, <1>42, <1>43 DEF Next, Request, Environment

----------------------------------------------------------------------------
(* Types                                                                   *)

\* The source is a window while a request runs, and the adapter consulted is a
\* layer of its chain wherever the code holds a reference to that adapter.
SessionOK ==
  /\ pc # "idle" => s.source \in Window
  /\ pc \in {"prepare", "unmerged", "inPlace", "inPlaceRead", "mergeInPlace",
            "merge", "refocus"} => s.layer \in LayersOf(s.source)
  /\ pc \in {"probe", "probeRead", "probeRestore", "probeMatch"}
       /\ (probe.caller = "merge" \/ probe.keep) => s.layer \in LayersOf(s.source)

\* focus_window_by_id leaves a window or nothing focused.
LEMMA FocusCallScreen ==
  ASSUME ScreenOK, NEW w, NEW ok \in BOOLEAN, FocusCall(w, ok)
  PROVE  focus' \in Window \cup {NoWindow}
  BY DEF FocusCall, ScreenOK

\* Removing a window keeps the screen well-typed.
LEMMA RemovedScreen ==
  ASSUME ScreenOK, NEW w, Removed(w), UNCHANGED <<used, expected>>
  PROVE  ScreenOK'
  BY DEF Removed, ScreenOK

\* Moving panes to a place keeps their places well-typed.
LEMMA MovePanesScreen ==
  ASSUME ScreenOK, NEW ps, NEW place \in Window \cup {Detached, Gone}, MovePanes(ps, place)
  PROVE  at' \in [Pane -> Window \cup {Detached, Gone}]
  BY DEF MovePanes, ScreenOK

\* focus_window_by_id counts at most one failure.
LEMMA FocusCallBounds ==
  ASSUME BoundsOK, NEW w, NEW ok \in BOOLEAN, FocusCall(w, ok), UNCHANGED <<envs, requests>>
  PROVE  BoundsOK'
  BY ConstantsAssumption DEF FocusCall, BoundsOK, Failing, Working

\* So does every other call.
LEMMA CallBounds ==
  ASSUME BoundsOK, Failing \/ Working, UNCHANGED <<envs, requests>>
  PROVE  BoundsOK'
  BY ConstantsAssumption DEF BoundsOK, Failing, Working

\* The updates of the session record keep its type.
LEMMA SessionLayer ==
  ASSUME NEW t \in Session, NEW n \in Nat
  PROVE  [t EXCEPT !.layer = n] \in Session
  BY DEF Session

\* Another outer layer.
LEMMA SessionOuter ==
  ASSUME NEW t \in Session, NEW n \in Nat
  PROVE  [t EXCEPT !.outer = n] \in Session
  BY DEF Session

\* Another cargo.
LEMMA SessionCargo ==
  ASSUME NEW t \in Session, NEW c \in SUBSET Pane
  PROVE  [t EXCEPT !.cargo = c] \in Session
  BY DEF Session

\* A prepared merge.
LEMMA SessionMerge ==
  ASSUME NEW t \in Session, NEW c \in SUBSET Pane, NEW n \in Nat
  PROVE  [t EXCEPT !.cargo = c, !.outer = n] \in Session
  BY DEF Session

\* Another source or target.
LEMMA SessionEnds ==
  ASSUME NEW t \in Session, NEW w \in Window \cup {NoWindow}
  PROVE  [t EXCEPT !.target = w] \in Session /\ [t EXCEPT !.source = w] \in Session
  BY DEF Session

\* The next layer of the chain.
LEMMA NextLayerType ==
  ASSUME s \in Session, NextLayer
  PROVE  s' \in Session
<1>1. s.layer + 1 \in Nat
  BY DEF Session
<1>. QED
  BY <1>1, SessionLayer DEF NextLayer

\* The next outer layer.
LEMMA NextOuterType ==
  ASSUME s \in Session
  PROVE  [s EXCEPT !.outer = @ + 1] \in Session
<1>1. s.outer + 1 \in Nat
  BY DEF Session
<1>. QED
  BY <1>1, SessionOuter

\* A probe started for one of its three callers is well-typed.
LEMMA StartProbeType ==
  ASSUME NEW keep \in BOOLEAN, NEW adapter \in Adapter \cup {NoAdapter},
         NEW caller \in {"merge", "tearCheck", "route"}, StartProbe(keep, adapter, caller)
  PROVE  /\ probe' \in [keep : BOOLEAN, adapter : Adapter \cup {NoAdapter},
                       caller : {"merge", "tearCheck", "route"}]
         /\ probe'.caller = caller /\ pc' = "probe"
  BY DEF StartProbe, Goto

\* The caller of a probe is one of three.
LEMMA CallerType ==
  ASSUME ControlOK
  PROVE  probe.caller \in {"merge", "tearCheck", "route"}
  BY DEF ControlOK

\* The pane torn out is one of the panes.
LEMMA CargoType ==
  ASSUME s \in Session, MoveOut \/ MoveOutFails
  PROVE  s' \in Session
  BY SessionCargo DEF MoveOut, MoveOutFails, PanesIn

\* The source read again by the routing step is a window.
LEMMA RouteReadType ==
  ASSUME s \in Session, focus \in Window \cup {NoWindow}, RouteRead
  PROVE  s' \in Session
  BY SessionEnds DEF RouteRead

\* The adapter consulted is one of the adapters.
LEMMA AppType ==
  ASSUME s.source \in Window, s.layer \in LayersOf(s.source)
  PROVE  App \in Adapter
  BY ConstantsAssumption DEF App, LayersOf

\* Focusing inside a layer keeps the offsets integers.
LEMMA OffsetType ==
  ASSUME offset \in [Layer -> Int], NEW k
  PROVE  FocusAlong(k) \in [Layer -> Int] /\ FocusBack(k) \in [Layer -> Int]
<1>1. \A j \in Layer : offset[j] \in Int /\ offset[j] + 1 \in Int /\ offset[j] - 1 \in Int
  OBVIOUS
<1>. QED
  BY <1>1 DEF FocusAlong, FocusBack

\* Every step keeps the screen well-typed.
LEMMA ScreenStep ==
  ASSUME TypeOK, SessionOK, [Next]_vars
  PROVE  ScreenOK'
<1>. USE DEF TypeOK, ScreenOK, SessionOK
<1>1. CASE Begin
  BY <1>1 DEF Begin, wmVars
<1>2. CASE BeginFails
  BY <1>2 DEF BeginFails, wmVars
<1>3. CASE ChainExhausted
  BY <1>3 DEF ChainExhausted, wmVars
<1>4. CASE LayerDecides
  BY <1>4 DEF LayerDecides, wmVars
<1>5. CASE LayerFails
  BY <1>5 DEF LayerFails, wmVars
<1>6. CASE Unmerged
  BY <1>6 DEF Unmerged, wmVars
<1>7. CASE ProbeFocus
  BY <1>7 DEF ProbeFocus, wmVars
<1>8. CASE ProbeRead
  BY <1>8 DEF ProbeRead, wmVars
<1>9. CASE ProbeReadFails
  BY <1>9 DEF ProbeReadFails, wmVars
<1>10. CASE ProbeRestore
  BY <1>10, FocusCallScreen DEF ProbeRestore, wmVars
<1>11. CASE ProbeMatch
  BY <1>11 DEF ProbeMatch, wmVars
<1>12. CASE Refocus
  BY <1>12, FocusCallScreen DEF Refocus, wmVars
<1>13. CASE PrepareMerge
  BY <1>13 DEF PrepareMerge, wmVars
<1>14. CASE InPlaceFocus
  BY <1>14 DEF InPlaceFocus, wmVars
<1>15. CASE InPlaceFocusFails
  BY <1>15 DEF InPlaceFocusFails, wmVars
<1>16. CASE InPlaceRead
  BY <1>16 DEF InPlaceRead, wmVars
<1>17. CASE InPlaceLeftWindow
  BY <1>17, FocusCallScreen DEF InPlaceLeftWindow, wmVars
<1>18. CASE InPlaceReadFails
  BY <1>18 DEF InPlaceReadFails, wmVars
<1>19. CASE MergeInPlace
  BY <1>19 DEF MergeInPlace, wmVars
<1>20. CASE MergeInPlaceFails
  BY <1>20 DEF MergeInPlaceFails, wmVars
<1>21. CASE Merge
  BY <1>21, MovePanesScreen DEF Merge, MergePossible, wmVars
<1>22. CASE MergeFails
  BY <1>22, MovePanesScreen DEF MergeFails, MergePossible, wmVars
<1>23. CASE CleanupFocus
  BY <1>23, FocusCallScreen DEF CleanupFocus, wmVars
<1>24. CASE CleanupClose
  BY <1>24, RemovedScreen DEF CleanupClose, wmVars
<1>25. CASE Snapshot
  BY <1>25 DEF Snapshot, wmVars
<1>26. CASE MoveOut
  BY <1>26, MovePanesScreen DEF MoveOut, PanesIn, wmVars
<1>27. CASE MoveOutFails
  BY <1>27, MovePanesScreen DEF MoveOutFails, wmVars
<1>28. CASE Spawn
  BY <1>28 DEF Spawn, ControlOK, Session, wmVars
<1>29. CASE Poll
  BY <1>29 DEF Poll, wmVars
<1>30. CASE PollsDone
  BY <1>30 DEF PollsDone, wmVars
<1>31. CASE FocusNew
  BY <1>31, FocusCallScreen DEF FocusNew, wmVars
<1>32. CASE PlaceFocus
  BY <1>32, FocusCallScreen DEF PlaceFocus, wmVars
<1>33. CASE PlaceRead
  BY <1>33 DEF PlaceRead, wmVars
<1>34. CASE Place
  BY <1>34 DEF Place, wmVars
<1>35. CASE RouteRead
  BY <1>35 DEF RouteRead, wmVars
<1>36. CASE Transfer
  BY <1>36, MovePanesScreen DEF Transfer, wmVars
<1>37. CASE WmMove
  BY <1>37 DEF WmMove, wmVars
<1>38. CASE UserFocuses
  BY <1>38 DEF UserFocuses, wmVars
<1>39. CASE UserCloses
  BY <1>39, RemovedScreen DEF UserCloses, wmVars
<1>40. CASE StrangerAppears
  BY <1>40 DEF StrangerAppears, wmVars
<1>41. CASE WindowAppears
  BY <1>41 DEF WindowAppears, wmVars
<1>42. CASE EmptyVanishes
  BY <1>42, RemovedScreen DEF EmptyVanishes, wmVars
<1>43. CASE UNCHANGED vars
  BY <1>43 DEF vars
<1>. QED
  BY <1>1, <1>2, <1>3, <1>4, <1>5, <1>6, <1>7, <1>8, <1>9, <1>10, <1>11, <1>12, <1>13, <1>14, <1>15, <1>16, <1>17, <1>18, <1>19, <1>20, <1>21, <1>22, <1>23, <1>24, <1>25, <1>26, <1>27, <1>28, <1>29, <1>30, <1>31, <1>32, <1>33, <1>34, <1>35, <1>36, <1>37, <1>38, <1>39, <1>40, <1>41, <1>42, <1>43 DEF Next, Request, Environment

\* Every step keeps the counters within their bounds.
LEMMA BoundsStep ==
  ASSUME BoundsOK, [Next]_vars
  PROVE  BoundsOK'
<1>. USE ConstantsAssumption
<1>1. CASE Begin
  BY <1>1 DEF Begin, envVars, BoundsOK
<1>2. CASE BeginFails
  BY <1>2 DEF BeginFails, Failing, Working, envVars, BoundsOK
<1>3. CASE ChainExhausted
  BY <1>3 DEF ChainExhausted, envVars, BoundsOK
<1>4. CASE LayerDecides
  BY <1>4 DEF LayerDecides, envVars, BoundsOK
<1>5. CASE LayerFails
  BY <1>5, CallBounds DEF LayerFails, envVars, BoundsOK
<1>6. CASE Unmerged
  BY <1>6 DEF Unmerged, envVars, BoundsOK
<1>7. CASE ProbeFocus
  BY <1>7, CallBounds DEF ProbeFocus, envVars, BoundsOK
<1>8. CASE ProbeRead
  BY <1>8 DEF ProbeRead, envVars, BoundsOK
<1>9. CASE ProbeReadFails
  BY <1>9, CallBounds DEF ProbeReadFails, envVars, BoundsOK
<1>10. CASE ProbeRestore
  BY <1>10, FocusCallBounds, CallBounds DEF ProbeRestore, envVars, BoundsOK
<1>11. CASE ProbeMatch
  BY <1>11 DEF ProbeMatch, envVars, BoundsOK
<1>12. CASE Refocus
  BY <1>12, FocusCallBounds, CallBounds DEF Refocus, envVars, BoundsOK
<1>13. CASE PrepareMerge
  BY <1>13, CallBounds DEF PrepareMerge, envVars, BoundsOK
<1>14. CASE InPlaceFocus
  BY <1>14 DEF InPlaceFocus, envVars, BoundsOK
<1>15. CASE InPlaceFocusFails
  BY <1>15, CallBounds DEF InPlaceFocusFails, envVars, BoundsOK
<1>16. CASE InPlaceRead
  BY <1>16, CallBounds DEF InPlaceRead, envVars, BoundsOK
<1>17. CASE InPlaceLeftWindow
  BY <1>17, FocusCallBounds, CallBounds DEF InPlaceLeftWindow, envVars, BoundsOK
<1>18. CASE InPlaceReadFails
  BY <1>18, CallBounds DEF InPlaceReadFails, envVars, BoundsOK
<1>19. CASE MergeInPlace
  BY <1>19, CallBounds DEF MergeInPlace, envVars, BoundsOK
<1>20. CASE MergeInPlaceFails
  BY <1>20 DEF MergeInPlaceFails, envVars, BoundsOK
<1>21. CASE Merge
  BY <1>21 DEF Merge, envVars, BoundsOK
<1>22. CASE MergeFails
  BY <1>22, CallBounds DEF MergeFails, envVars, BoundsOK
<1>23. CASE CleanupFocus
  BY <1>23, FocusCallBounds, CallBounds DEF CleanupFocus, envVars, BoundsOK
<1>24. CASE CleanupClose
  BY <1>24, CallBounds DEF CleanupClose, envVars, BoundsOK
<1>25. CASE Snapshot
  BY <1>25, CallBounds DEF Snapshot, envVars, BoundsOK
<1>26. CASE MoveOut
  BY <1>26 DEF MoveOut, envVars, BoundsOK
<1>27. CASE MoveOutFails
  BY <1>27, CallBounds DEF MoveOutFails, envVars, BoundsOK
<1>28. CASE Spawn
  BY <1>28, CallBounds DEF Spawn, envVars, BoundsOK
<1>29. CASE Poll
  BY <1>29, CallBounds DEF Poll, envVars, BoundsOK
<1>30. CASE PollsDone
  BY <1>30 DEF PollsDone, envVars, BoundsOK
<1>31. CASE FocusNew
  BY <1>31, FocusCallBounds, CallBounds DEF FocusNew, envVars, BoundsOK
<1>32. CASE PlaceFocus
  BY <1>32, FocusCallBounds, CallBounds DEF PlaceFocus, envVars, BoundsOK
<1>33. CASE PlaceRead
  BY <1>33, CallBounds DEF PlaceRead, envVars, BoundsOK
<1>34. CASE Place
  BY <1>34, CallBounds DEF Place, envVars, BoundsOK
<1>35. CASE RouteRead
  BY <1>35, CallBounds DEF RouteRead, envVars, BoundsOK
<1>36. CASE Transfer
  BY <1>36, CallBounds DEF Transfer, envVars, BoundsOK
<1>37. CASE WmMove
  BY <1>37, CallBounds DEF WmMove, envVars, BoundsOK
<1>38. CASE UserFocuses
  BY <1>38 DEF UserFocuses, Acts, envVars, BoundsOK
<1>39. CASE UserCloses
  BY <1>39 DEF UserCloses, Acts, envVars, BoundsOK
<1>40. CASE StrangerAppears
  BY <1>40 DEF StrangerAppears, Acts, envVars, BoundsOK
<1>41. CASE WindowAppears
  BY <1>41 DEF WindowAppears, envVars, BoundsOK
<1>42. CASE EmptyVanishes
  BY <1>42 DEF EmptyVanishes, envVars, BoundsOK
<1>43. CASE UNCHANGED vars
  BY <1>43 DEF vars, BoundsOK
<1>. QED
  BY <1>1, <1>2, <1>3, <1>4, <1>5, <1>6, <1>7, <1>8, <1>9, <1>10, <1>11, <1>12, <1>13, <1>14, <1>15, <1>16, <1>17, <1>18, <1>19, <1>20, <1>21, <1>22, <1>23, <1>24, <1>25, <1>26, <1>27, <1>28, <1>29, <1>30, <1>31, <1>32, <1>33, <1>34, <1>35, <1>36, <1>37, <1>38, <1>39, <1>40, <1>41, <1>42, <1>43 DEF Next, Request, Environment

\* Every step keeps the control state well-typed.
LEMMA ControlStep ==
  ASSUME TypeOK, SessionOK, [Next]_vars
  PROVE  ControlOK'
<1>. USE ConstantsAssumption DEF TypeOK, ScreenOK, ControlOK, SessionOK, PcValues
<1>1. CASE Begin
  <2>1. s' \in Session
    BY <1>1 DEF Begin, Session, NoSession
  <2>. QED
    BY <2>1, <1>1 DEF Begin
<1>2. CASE BeginFails
  BY <1>2 DEF BeginFails
<1>3. CASE ChainExhausted
  BY <1>3 DEF ChainExhausted, Goto
<1>4. CASE LayerDecides
  BY <1>4, AppType DEF LayerDecides, Goto, Finish
<1>5. CASE LayerFails
  BY <1>5, AppType DEF LayerFails, Finish
<1>6. CASE Unmerged
  <2>1. CASE Profile[App].terminal /\ Profile[App].tearOut
    BY <1>6, <2>1, AppType, StartProbeType DEF Unmerged
  <2>2. CASE ~(Profile[App].terminal /\ Profile[App].tearOut)
    BY <1>6, <2>2, NextLayerType DEF Unmerged, NextLayer, Goto
  <2>. QED
    BY <2>1, <2>2
<1>7. CASE ProbeFocus
  BY <1>7 DEF ProbeFocus, Goto, ProbeNone
<1>8. CASE ProbeRead
  <2>1. s' \in Session
    BY <1>8 DEF ProbeRead, Session
  <2>. QED
    BY <2>1, <1>8 DEF ProbeRead, Goto, ProbeNone, RestoresSource
<1>9. CASE ProbeReadFails
  BY <1>9 DEF ProbeReadFails, Finish
<1>10. CASE ProbeRestore
  BY <1>10 DEF ProbeRestore, Goto, Finish
<1>11. CASE ProbeMatch
  <2>1. s' \in Session
    BY <1>11, NextLayerType DEF ProbeMatch
  <2>. QED
    BY <2>1, <1>11 DEF ProbeMatch, Goto, NextLayer, ProbeNone
<1>12. CASE Refocus
  BY <1>12 DEF Refocus
<1>13. CASE PrepareMerge
  <2>1. s' \in Session
    <3>1. s.layer + 1 \in Nat
      BY DEF Session
    <3>2. \A p \in Pane : [s EXCEPT !.cargo = {p}, !.outer = s.layer + 1] \in Session
      BY <3>1, SessionMerge
    <3>. QED
      BY <1>13, <3>2 DEF PrepareMerge, PanesIn
  <2>2. App \in Adapter
    BY <1>13, AppType DEF PrepareMerge
  <2>. QED
    BY <2>1, <2>2, <1>13, StartProbeType DEF PrepareMerge, Goto
<1>14. CASE InPlaceFocus
  <2>1. s' \in Session
    BY <1>14, NextOuterType DEF InPlaceFocus
  <2>2. App \in Adapter
    BY <1>14, AppType DEF InPlaceFocus
  <2>3. offset' \in [Layer -> Int]
    <3>1. offset' = offset \/ offset' = FocusAlong(s.outer)
      BY <1>14 DEF InPlaceFocus
    <3>. QED
      BY <3>1, OffsetType
  <2>. QED
    BY <2>1, <2>2, <2>3, <1>14, StartProbeType DEF InPlaceFocus, Goto
<1>15. CASE InPlaceFocusFails
  BY <1>15 DEF InPlaceFocusFails, Finish
<1>16. CASE InPlaceRead
  <2>1. s' \in Session
    BY <1>16, NextOuterType DEF InPlaceRead
  <2>2. offset' \in [Layer -> Int]
    BY <1>16, OffsetType DEF InPlaceRead
  <2>. QED
    BY <2>1, <2>2, <1>16 DEF InPlaceRead, Goto
<1>17. CASE InPlaceLeftWindow
  <2>1. s' \in Session
    BY <1>17, NextOuterType DEF InPlaceLeftWindow
  <2>. QED
    BY <2>1, <1>17 DEF InPlaceLeftWindow
<1>18. CASE InPlaceReadFails
  BY <1>18 DEF InPlaceReadFails, Finish
<1>19. CASE MergeInPlace
  BY <1>19 DEF MergeInPlace, Finish
<1>20. CASE MergeInPlaceFails
  BY <1>20, OffsetType DEF MergeInPlaceFails
<1>21. CASE Merge
  BY <1>21 DEF Merge
<1>22. CASE MergeFails
  BY <1>22, AppType DEF MergeFails
<1>23. CASE CleanupFocus
  BY <1>23 DEF CleanupFocus, Goto
<1>24. CASE CleanupClose
  BY <1>24 DEF CleanupClose, Finish, LoggedError
<1>25. CASE Snapshot
  BY <1>25 DEF Snapshot
<1>26. CASE MoveOut
  <2>1. s' \in Session
    BY <1>26, CargoType
  <2>. QED
    BY <2>1, <1>26 DEF MoveOut
<1>27. CASE MoveOutFails
  <2>1. s' \in Session
    BY <1>27, CargoType
  <2>. QED
    BY <2>1, <1>27 DEF MoveOutFails, Finish
<1>28. CASE Spawn
  BY <1>28 DEF Spawn, Goto, Finish
<1>29. CASE Poll
  <2>1. s' \in Session
    BY <1>29 DEF Poll, Session
  <2>. QED
    BY <2>1, <1>29 DEF Poll, PollsLeft, Goto
<1>30. CASE PollsDone
  <2>1. s' \in Session
    BY <1>30 DEF PollsDone, Session
  <2>. QED
    BY <2>1, <1>30 DEF PollsDone, PollsLeft, Goto
<1>31. CASE FocusNew
  BY <1>31 DEF FocusNew, Goto
<1>32. CASE PlaceFocus
  BY <1>32 DEF PlaceFocus, Goto, Finish, LoggedError
<1>33. CASE PlaceRead
  BY <1>33 DEF PlaceRead, Goto, Finish, LoggedError
<1>34. CASE Place
  BY <1>34 DEF Place, Finish, LoggedError
<1>35. CASE RouteRead
  <2>1. s' \in Session
    BY <1>35, RouteReadType
  <2>2. CASE StartProbe(FALSE, NoAdapter, "route")
    BY <2>1, <2>2, <1>35, StartProbeType DEF RouteRead
  <2>3. CASE Finish(h, "wmErr") /\ UNCHANGED probe
    BY <2>1, <2>3, <1>35 DEF RouteRead, Finish
  <2>. QED
    BY <2>2, <2>3, <1>35 DEF RouteRead
<1>36. CASE Transfer
  BY <1>36 DEF Transfer, PanesIn, TransferDone, Goto, Finish
<1>37. CASE WmMove
  BY <1>37 DEF WmMove, Finish
<1>38. CASE UserFocuses
  BY <1>38 DEF UserFocuses
<1>39. CASE UserCloses
  BY <1>39 DEF UserCloses
<1>40. CASE StrangerAppears
  BY <1>40 DEF StrangerAppears
<1>41. CASE WindowAppears
  BY <1>41 DEF WindowAppears
<1>42. CASE EmptyVanishes
  BY <1>42 DEF EmptyVanishes, PanesIn
<1>43. CASE UNCHANGED vars
  BY <1>43 DEF vars
<1>. QED
  BY <1>1, <1>2, <1>3, <1>4, <1>5, <1>6, <1>7, <1>8, <1>9, <1>10, <1>11, <1>12, <1>13, <1>14, <1>15, <1>16, <1>17, <1>18, <1>19, <1>20, <1>21, <1>22, <1>23, <1>24, <1>25, <1>26, <1>27, <1>28, <1>29, <1>30, <1>31, <1>32, <1>33, <1>34, <1>35, <1>36, <1>37, <1>38, <1>39, <1>40, <1>41, <1>42, <1>43 DEF Next, Request, Environment

\* Every step keeps SessionOK.
LEMMA SessionStep ==
  ASSUME TypeOK, SessionOK, [Next]_vars
  PROVE  SessionOK'
<1>. USE ConstantsAssumption DEF TypeOK, ScreenOK, ControlOK, SessionOK, Session, PcValues
<1>1. CASE Begin
  BY <1>1 DEF Begin, LayersOf
<1>2. CASE BeginFails
  BY <1>2 DEF BeginFails, LayersOf
<1>3. CASE ChainExhausted
  BY <1>3 DEF ChainExhausted, Goto, LayersOf
<1>4. CASE LayerDecides
  BY <1>4 DEF LayerDecides, Goto, Finish, LayersOf
<1>5. CASE LayerFails
  BY <1>5 DEF LayerFails, Finish, LayersOf
<1>6. CASE Unmerged
  BY <1>6 DEF Unmerged, StartProbe, NextLayer, Goto, LayersOf
<1>7. CASE ProbeFocus
  BY <1>7 DEF ProbeFocus, Goto, ProbeNone, LayersOf
<1>8. CASE ProbeRead
  BY <1>8 DEF ProbeRead, Goto, ProbeNone, RestoresSource, LayersOf
<1>9. CASE ProbeReadFails
  BY <1>9 DEF ProbeReadFails, Finish, LayersOf
<1>10. CASE ProbeRestore
  BY <1>10 DEF ProbeRestore, Goto, Finish, LayersOf
<1>11. CASE ProbeMatch
  <2>1. probe.caller \in {"merge", "tearCheck", "route"} /\ s.source \in Window /\ UNCHANGED probe
    BY <1>11, CallerType DEF ProbeMatch
  <2>2. CASE s' = s /\ pc' \in {"merge", "transfer", "refocus", "unmerged", "snapshot", "wmMove"}
    <3>1. pc' \in {"merge", "unmerged"} => probe.caller = "merge" \/ probe.keep
      BY <1>11, <2>1, <2>2 DEF ProbeMatch, Goto, NextLayer, ProbeNone
    <3>2. pc' = "refocus" => probe.keep
      BY <1>11, <2>1, <2>2 DEF ProbeMatch, Goto, NextLayer, ProbeNone
    <3>. QED
      BY <1>11, <2>1, <2>2, <3>1, <3>2 DEF ProbeMatch, LayersOf
  <2>3. CASE NextLayer
    BY <1>11, <2>1, <2>3 DEF NextLayer, Goto
  <2>. QED
    BY <1>11, <2>1, <2>2, <2>3 DEF ProbeMatch, Goto, ProbeNone
<1>12. CASE Refocus
  BY <1>12 DEF Refocus, LayersOf
<1>13. CASE PrepareMerge
  BY <1>13 DEF PrepareMerge, PanesIn, Goto, StartProbe, LayersOf
<1>14. CASE InPlaceFocus
  BY <1>14 DEF InPlaceFocus, StartProbe, Goto, LayersOf
<1>15. CASE InPlaceFocusFails
  BY <1>15 DEF InPlaceFocusFails, Finish, LayersOf
<1>16. CASE InPlaceRead
  BY <1>16 DEF InPlaceRead, Goto, LayersOf
<1>17. CASE InPlaceLeftWindow
  BY <1>17 DEF InPlaceLeftWindow, LayersOf
<1>18. CASE InPlaceReadFails
  BY <1>18 DEF InPlaceReadFails, Finish, LayersOf
<1>19. CASE MergeInPlace
  BY <1>19 DEF MergeInPlace, Finish, LayersOf
<1>20. CASE MergeInPlaceFails
  BY <1>20 DEF MergeInPlaceFails, LayersOf
<1>21. CASE Merge
  BY <1>21 DEF Merge, LayersOf
<1>22. CASE MergeFails
  BY <1>22 DEF MergeFails, LayersOf
<1>23. CASE CleanupFocus
  BY <1>23 DEF CleanupFocus, Goto, LayersOf
<1>24. CASE CleanupClose
  BY <1>24 DEF CleanupClose, Finish, LoggedError, LayersOf
<1>25. CASE Snapshot
  BY <1>25 DEF Snapshot, LayersOf
<1>26. CASE MoveOut
  BY <1>26 DEF MoveOut, PanesIn, LayersOf
<1>27. CASE MoveOutFails
  BY <1>27 DEF MoveOutFails, PanesIn, Finish, LayersOf
<1>28. CASE Spawn
  BY <1>28 DEF Spawn, Goto, Finish, LayersOf
<1>29. CASE Poll
  BY <1>29 DEF Poll, PollsLeft, Goto, LayersOf
<1>30. CASE PollsDone
  BY <1>30 DEF PollsDone, PollsLeft, Goto, LayersOf
<1>31. CASE FocusNew
  BY <1>31 DEF FocusNew, Goto, LayersOf
<1>32. CASE PlaceFocus
  BY <1>32 DEF PlaceFocus, Goto, Finish, LoggedError, LayersOf
<1>33. CASE PlaceRead
  BY <1>33 DEF PlaceRead, Goto, Finish, LoggedError, LayersOf
<1>34. CASE Place
  BY <1>34 DEF Place, Finish, LoggedError, LayersOf
<1>35. CASE RouteRead
  BY <1>35 DEF RouteRead, StartProbe, Finish, Goto, LayersOf
<1>36. CASE Transfer
  BY <1>36 DEF Transfer, PanesIn, TransferDone, Goto, Finish, LayersOf
<1>37. CASE WmMove
  BY <1>37 DEF WmMove, Finish, LayersOf
<1>38. CASE UserFocuses
  BY <1>38 DEF UserFocuses, LayersOf
<1>39. CASE UserCloses
  BY <1>39 DEF UserCloses, LayersOf
<1>40. CASE StrangerAppears
  BY <1>40 DEF StrangerAppears, LayersOf
<1>41. CASE WindowAppears
  BY <1>41 DEF WindowAppears, LayersOf
<1>42. CASE EmptyVanishes
  BY <1>42 DEF EmptyVanishes, PanesIn, LayersOf
<1>43. CASE UNCHANGED vars
  BY <1>43 DEF vars
<1>. QED
  BY <1>1, <1>2, <1>3, <1>4, <1>5, <1>6, <1>7, <1>8, <1>9, <1>10, <1>11, <1>12, <1>13, <1>14, <1>15, <1>16, <1>17, <1>18, <1>19, <1>20, <1>21, <1>22, <1>23, <1>24, <1>25, <1>26, <1>27, <1>28, <1>29, <1>30, <1>31, <1>32, <1>33, <1>34, <1>35, <1>36, <1>37, <1>38, <1>39, <1>40, <1>41, <1>42, <1>43 DEF Next, Request, Environment

----------------------------------------------------------------------------
(* The inductive invariant and the theorems                                *)

IInv == TypeOK /\ SessionOK /\ OneEffect

\* The initial state satisfies the invariant.
LEMMA IInvInit == Init => IInv
<1>. SUFFICES ASSUME Init PROVE IInv
  OBVIOUS
<1>1. NoWindow \in Window \cup {NoWindow} /\ Fresh(NoWindow) \in History
  BY FreshUnmoved, InHistory
<1>2. h = Fresh(NoWindow) /\ h \in History
  BY <1>1 DEF Init
<1>3. ScreenOK
  BY ConstantsAssumption DEF Init, ScreenOK
<1>4. s \in Session /\ offset \in [Layer -> Int]
  BY DEF Init, NoSession, Session
<1>5. probe \in [keep : BOOLEAN, adapter : Adapter \cup {NoAdapter},
                caller : {"merge", "tearCheck", "route"}]
  BY DEF Init, NoProbe
<1>6. ControlOK
  BY <1>4, <1>5, ConstantsAssumption DEF Init, ControlOK, PcValues
<1>7. BoundsOK
  BY ConstantsAssumption DEF Init, BoundsOK
<1>8. SessionOK
  BY DEF Init, SessionOK
<1>9. OneEffect
  <2>1. Ended(h)
    BY <1>2 DEF Fresh, Ended
  <2>. QED
    BY <2>1 DEF Init, OneEffect, Undecided, Acted
<1>. QED
  BY <1>2, <1>3, <1>6, <1>7, <1>8, <1>9 DEF IInv, TypeOK

\* Every step keeps it.
LEMMA IInvStep == IInv /\ [Next]_vars => IInv'
<1>. SUFFICES ASSUME IInv, [Next]_vars PROVE IInv'
  OBVIOUS
<1>1. TypeOK /\ SessionOK /\ OneEffect /\ BoundsOK
  BY DEF IInv, TypeOK
<1>2. ScreenOK' /\ ControlOK' /\ BoundsOK' /\ SessionOK' /\ OneEffect'
  BY <1>1, ScreenStep, ControlStep, BoundsStep, SessionStep, EffectStep
<1>3. h' \in History
  BY <1>2 DEF OneEffect, Unmoved, MovedOnce, Ended, ControlOK, Undecided
<1>. QED
  BY <1>2, <1>3 DEF IInv, TypeOK

\* Hence it holds in every reachable state.
LEMMA Invariance == Spec => []IInv
  BY IInvInit, IInvStep, PTL DEF Spec

\* The state of a move session is well-typed in every reachable state.
THEOREM TypeCorrect == Spec => []TypeOK
<1>1. IInv => TypeOK
  BY DEF IInv
<1>. QED
  BY <1>1, Invariance, PTL

\* What an adapter, a transfer or a tear-out has moved is never moved again by a
\* later layer, nor by the fallback of execute_move_session, except after a call
\* that failed to report that it had taken effect.
THEOREM MovesOnce == Spec => []NoDoubleMove
<1>1. IInv => NoDoubleMove
  <2>. SUFFICES ASSUME IInv PROVE NoDoubleMove
    OBVIOUS
  <2>1. CASE pc = "idle"
    BY <2>1 DEF IInv, OneEffect, Ended, NoDoubleMove
  <2>2. CASE pc # "idle"
    <3>1. h \in History /\ h.by = "none" /\ h.relocations <= h.late + 1
      BY <2>2, UnmovedIsMovedOnce
         DEF IInv, TypeOK, ControlOK, OneEffect, Undecided, MovedOnce
    <3>2. h.relocations \in Nat /\ h.late \in Nat
      BY <3>1 DEF History
    <3>. QED
      BY <3>1, <3>2 DEF NoDoubleMove
  <2>. QED
    BY <2>1, <2>2
<1>. QED
  BY <1>1, Invariance, PTL

-----------------------------------------------------------------------------
(* The contract                                                            *)

\* The effect of a request is still to come, or has taken place; no report yet.
Pending(g) == g \in History /\ g.relocations = g.late /\ g.result = "none"
Effected(g) == g \in History /\ g.relocations = g.late + 1 /\ g.result = "none"

\* OneEffect made exact, as the stages of the contract need it.
Balanced ==
  /\ pc \in Undecided => Pending(h)
  /\ pc \in Acted => Effected(h)

\* A request begins with its effect to come.
LEMMA FreshPending ==
  ASSUME NEW w \in Window \cup {NoWindow}
  PROVE  Pending(Fresh(w))
  BY DEF Pending, Fresh, History

\* Recording a disturbance leaves the stage alone.
LEMMA DisturbedTally ==
  ASSUME NEW g \in History, NEW b \in BOOLEAN
  PROVE  /\ Disturbed(g, b).result = g.result
         /\ Pending(g) => Pending(Disturbed(g, b))
         /\ Effected(g) => Effected(Disturbed(g, b))
<1>1. (g.disturbed \/ b) \in BOOLEAN
  OBVIOUS
<1>2. \A c \in BOOLEAN : LET f == [g EXCEPT !.disturbed = c]
                         IN  /\ f \in History /\ f.relocations = g.relocations
                             /\ f.late = g.late /\ f.result = g.result
  BY DEF History
<1>. QED
  BY <1>1, <1>2 DEF Pending, Effected, Disturbed

\* Nor does a snapshot that was not read.
LEMMA SnapshotTally ==
  ASSUME Pending(h)
  PROVE  Pending([h EXCEPT !.snapOk = FALSE])
  BY DEF Pending, History

\* Nor do acts of the environment.
LEMMA DisturbTally ==
  ASSUME TypeOK, Balanced, UNCHANGED pc, Disturb \/ UNCHANGED h
  PROVE  Balanced' /\ h'.result = h.result
  BY DisturbedTally DEF Balanced, Disturb, TypeOK, ControlOK, Undecided, Acted, Pending, Effected

\* A call that succeeds is the effect; one that reports failure leaves it to come.
LEMMA CountedTally ==
  ASSUME Pending(h)
  PROVE  /\ Effected(Counted(FALSE)) /\ Effected(Relocated(FALSE))
         /\ Pending(Counted(TRUE)) /\ Pending(Relocated(TRUE))
<1>1. h \in History /\ h.relocations \in Nat /\ h.late = h.relocations /\ h.result = "none"
  BY DEF Pending, History
<1>. DEFINE With(n, l) == [h EXCEPT !.relocations = n, !.late = l]
<1>2. \A n, l \in Nat : /\ With(n, l) \in History /\ With(n, l).relocations = n
                        /\ With(n, l).late = l /\ With(n, l).result = "none"
  BY <1>1 DEF History
<1>3. Counted(FALSE) = With(h.relocations + 1, h.late) /\ Counted(TRUE) = With(h.relocations + 1, h.late + 1)
  BY DEF Counted
<1>4. Effected(Counted(FALSE)) /\ Pending(Counted(TRUE))
  <2>1. h.relocations + 1 \in Nat /\ h.late + 1 \in Nat /\ h.late \in Nat
    BY <1>1
  <2>. HIDE DEF With
  <2>2. Effected(With(h.relocations + 1, h.late))
    BY <1>1, <1>2, <2>1 DEF Effected
  <2>3. Pending(With(h.relocations + 1, h.late + 1))
    BY <1>1, <1>2, <2>1 DEF Pending
  <2>. QED
    BY <1>3, <2>2, <2>3
<1>5. \A g \in History, b \in BOOLEAN :
        LET f == [g EXCEPT !.stray = b]
        IN  /\ f \in History /\ f.relocations = g.relocations
            /\ f.late = g.late /\ f.result = g.result
  BY DEF History
<1>6. \A late \in BOOLEAN : (Counted(late).stray \/ Displaced) \in BOOLEAN
  OBVIOUS
<1>. QED
  BY <1>4, <1>5, <1>6 DEF Effected, Pending, Relocated

\* Every step keeps the tally.
LEMMA TallyStep ==
  ASSUME TypeOK, Balanced, [Next]_vars
  PROVE  Balanced'
<1>. USE DEF TypeOK, ScreenOK, ControlOK, Balanced, Undecided, Acted, PcValues
<1>1. CASE Begin
  BY <1>1, FreshPending DEF Begin
<1>2. CASE BeginFails
  BY <1>2 DEF BeginFails
<1>3. CASE ChainExhausted
  BY <1>3 DEF ChainExhausted, Goto
<1>4. CASE LayerDecides
  BY <1>4, CountedTally DEF LayerDecides, Finish, Goto
<1>5. CASE LayerFails
  BY <1>5, CountedTally DEF LayerFails, Finish
<1>6. CASE Unmerged
  BY <1>6 DEF Unmerged, Goto, StartProbe, NextLayer
<1>7. CASE ProbeFocus
  BY <1>7 DEF ProbeFocus, Goto, ProbeNone
<1>8. CASE ProbeRead
  BY <1>8 DEF ProbeRead, Goto, ProbeNone
<1>9. CASE ProbeReadFails
  BY <1>9, DisturbedTally DEF ProbeReadFails, Finish
<1>10. CASE ProbeRestore
  BY <1>10, DisturbedTally DEF ProbeRestore, Finish, Goto
<1>11. CASE ProbeMatch
  BY <1>11 DEF ProbeMatch, Goto, ProbeNone, NextLayer
<1>12. CASE Refocus
  BY <1>12, DisturbedTally DEF Refocus
<1>13. CASE PrepareMerge
  BY <1>13 DEF PrepareMerge, Goto, StartProbe
<1>14. CASE InPlaceFocus
  BY <1>14 DEF InPlaceFocus, Goto, StartProbe
<1>15. CASE InPlaceFocusFails
  BY <1>15 DEF InPlaceFocusFails, Finish
<1>16. CASE InPlaceRead
  BY <1>16, DisturbedTally DEF InPlaceRead, Goto
<1>17. CASE InPlaceLeftWindow
  BY <1>17, DisturbedTally DEF InPlaceLeftWindow
<1>18. CASE InPlaceReadFails
  BY <1>18 DEF InPlaceReadFails, Finish
<1>19. CASE MergeInPlace
  BY <1>19 DEF MergeInPlace, Finish
<1>20. CASE MergeInPlaceFails
  <2>1. PICK hist \in {h, Counted(TRUE)}, restored \in BOOLEAN : h' = Disturbed(hist, ~restored)
    BY <1>20 DEF MergeInPlaceFails
  <2>2. Pending(hist) /\ pc' = "unmerged"
    BY <1>20, CountedTally DEF MergeInPlaceFails
  <2>3. hist \in History /\ (~restored) \in BOOLEAN
    BY <2>2 DEF Pending
  <2>4. Pending(h')
    BY <2>1, <2>2, <2>3, DisturbedTally
  <2>. QED
    BY <2>2, <2>4
<1>21. CASE Merge
  BY <1>21, CountedTally DEF Merge
<1>22. CASE MergeFails
  BY <1>22, CountedTally DEF MergeFails
<1>23. CASE CleanupFocus
  BY <1>23 DEF CleanupFocus, Goto
<1>24. CASE CleanupClose
  BY <1>24 DEF CleanupClose, Finish
<1>25. CASE Snapshot
  BY <1>25, SnapshotTally DEF Snapshot
<1>26. CASE MoveOut
  BY <1>26, CountedTally DEF MoveOut
<1>27. CASE MoveOutFails
  BY <1>27, CountedTally DEF MoveOutFails, Finish
<1>28. CASE Spawn
  BY <1>28 DEF Spawn, Goto, Finish
<1>29. CASE Poll
  BY <1>29 DEF Poll, Goto
<1>30. CASE PollsDone
  BY <1>30 DEF PollsDone, Goto
<1>31. CASE FocusNew
  BY <1>31 DEF FocusNew, Goto
<1>32. CASE PlaceFocus
  BY <1>32 DEF PlaceFocus, Goto, Finish
<1>33. CASE PlaceRead
  BY <1>33 DEF PlaceRead, Goto, Finish
<1>34. CASE Place
  BY <1>34 DEF Place, Finish
<1>35. CASE RouteRead
  BY <1>35 DEF RouteRead, Goto, Finish, StartProbe
<1>36. CASE Transfer
  BY <1>36, CountedTally DEF Transfer, Finish, Goto, TransferDone
<1>37. CASE WmMove
  BY <1>37 DEF WmMove, Finish
<1>38. CASE UserFocuses
  BY <1>38, DisturbTally DEF UserFocuses
<1>39. CASE UserCloses
  BY <1>39, DisturbTally DEF UserCloses
<1>40. CASE StrangerAppears
  BY <1>40, DisturbTally DEF StrangerAppears
<1>41. CASE WindowAppears
  BY <1>41, DisturbTally DEF WindowAppears
<1>42. CASE EmptyVanishes
  BY <1>42, DisturbTally DEF EmptyVanishes
<1>43. CASE UNCHANGED vars
  BY <1>43 DEF vars
<1>. QED
  BY <1>1, <1>2, <1>3, <1>4, <1>5, <1>6, <1>7, <1>8, <1>9, <1>10, <1>11, <1>12, <1>13, <1>14, <1>15,
     <1>16, <1>17, <1>18, <1>19, <1>20, <1>21, <1>22, <1>23, <1>24, <1>25, <1>26, <1>27, <1>28,
     <1>29, <1>30, <1>31, <1>32, <1>33, <1>34, <1>35, <1>36, <1>37, <1>38, <1>39, <1>40, <1>41,
     <1>42, <1>43 DEF Next, Request, Environment

----------------------------------------------------------------------------
(* The contract                                                            *)

\* An adapter that merges counts the panes of its window, and is asked to tear
\* one out when there are several; so it merges the last pane.
MergesLastPane ==
  /\ IsFiniteSet(Pane)
  /\ \A n \in Adapter :
       Profile[n].merge => Profile[n].wholeWindow /\ Profile[n].tearOut /\ Profile[n].moveAllowed

\* Panes are shown by windows there are; those to come show one that is detached.
Places ==
  /\ focus \in windows \cup {NoWindow}
  /\ at \in [Pane -> windows \cup {Detached, Gone}]
  /\ \A p \in expected : at[p] = Detached
  /\ pc # "idle" => s.source \in used

Probing == {"probe", "probeRead", "probeRestore", "probeMatch"}

\* A pane torn out waits for its window to be asked for.
Torn == pc = "spawn" => \E p \in Pane : s.cargo = {p} /\ at[p] = Detached /\ p \notin expected

\* The pane that a merge takes is the only one of the source; so nothing is left
\* there after it.
LastPane == \E p \in Pane : s.cargo = {p} /\ PanesIn(s.source) \subseteq {p}
Cargo ==
  /\ pc = "prepare" => \A p, q \in PanesIn(s.source) : p = q
  /\ pc \in {"inPlace", "inPlaceRead", "mergeInPlace", "merge"} => LastPane
  /\ pc \in Probing /\ probe.caller = "merge" => LastPane
  /\ pc \in {"cleanupFocus", "cleanupClose"} => s.source = s.target \/ PanesIn(s.source) = {}

CInv == IInv /\ Balanced /\ Places /\ Torn /\ Cargo

\* focus_window_by_id leaves a window there is, or nothing, focused.
LEMMA FocusCallPlaces ==
  ASSUME focus \in windows \cup {NoWindow}, NEW w, NEW ok, FocusCall(w, ok)
  PROVE  focus' \in windows \cup {NoWindow}
  BY DEF FocusCall

\* A window that is not there shows no pane.
LEMMA RemovedPlaces ==
  ASSUME TypeOK, Places, NEW w \in windows, Removed(w), UNCHANGED <<used, expected, s>>,
         pc' \in {pc, "idle"}
  PROVE  Places'
<1>1. w \in Nat /\ w # Detached
  BY ConstantsAssumption DEF TypeOK, ScreenOK, Detached
<1>2. focus' \in windows' \cup {NoWindow}
  BY DEF Places, Removed
<1>3. at' \in [Pane -> windows' \cup {Detached, Gone}]
  BY <1>1 DEF Places, Removed
<1>4. \A p \in expected' : at'[p] = Detached
  BY <1>1 DEF TypeOK, ScreenOK, Places, Removed
<1>. QED
  BY <1>2, <1>3, <1>4 DEF Places

\* Panes shown by a window are shown by a window there is.
LEMMA MovePanesPlaces ==
  ASSUME TypeOK, Places, NEW ps, NEW place \in windows \cup {Detached}, MovePanes(ps, place),
         \A p \in ps \cap expected : place = Detached
  PROVE  /\ at' \in [Pane -> windows \cup {Detached, Gone}]
         /\ \A p \in expected : at'[p] = Detached
  BY DEF TypeOK, ScreenOK, Places, MovePanes

\* A pane of the source is not one whose window is to come.
LEMMA SourceShown ==
  ASSUME TypeOK, Places, pc # "idle", NEW p \in PanesIn(s.source)
  PROVE  p \in Pane /\ p \notin expected /\ s.source \in windows /\ at[p] = s.source
<1>1. s.source \in Window /\ s.source \in Nat /\ p \in Pane /\ at[p] = s.source
  BY ConstantsAssumption DEF TypeOK, ScreenOK, Places, PanesIn
<1>2. at[p] # Detached /\ at[p] # Gone
  BY <1>1 DEF Detached, Gone
<1>. QED
  BY <1>1, <1>2 DEF Places

\* So a merge, successful or not, leaves the places right.
LEMMA MergedPlaces ==
  ASSUME TypeOK, Places, pc = "merge", MergePossible, MovePanes(s.cargo, s.target)
  PROVE  /\ at' \in [Pane -> windows \cup {Detached, Gone}]
         /\ \A p \in expected : at'[p] = Detached
<1>1. s.cargo \subseteq PanesIn(s.source) /\ s.target \in windows
  BY DEF TypeOK, ControlOK, Session, MergePossible, PanesIn
<1>2. \A p \in s.cargo : p \notin expected
  BY <1>1, SourceShown
<1>. QED
  BY <1>1, <1>2, MovePanesPlaces

\* Every step keeps the places.
LEMMA PlacesStep ==
  ASSUME TypeOK, Places, Torn, [Next]_vars
  PROVE  Places'
<1>. USE DEF TypeOK, ScreenOK, ControlOK, Places
<1>1. CASE Begin
  BY <1>1 DEF Begin, NoSession, wmVars
<1>2. CASE BeginFails
  BY <1>2 DEF BeginFails, wmVars, Session
<1>3. CASE ChainExhausted
  BY <1>3 DEF ChainExhausted, Goto, wmVars
<1>4. CASE LayerDecides
  BY <1>4 DEF LayerDecides, Goto, Finish, wmVars
<1>5. CASE LayerFails
  BY <1>5 DEF LayerFails, Finish, wmVars
<1>6. CASE Unmerged
  BY <1>6 DEF Unmerged, Goto, StartProbe, NextLayer, wmVars, Session
<1>7. CASE ProbeFocus
  BY <1>7 DEF ProbeFocus, Goto
<1>8. CASE ProbeRead
  BY <1>8 DEF ProbeRead, Goto, wmVars, Session
<1>9. CASE ProbeReadFails
  BY <1>9 DEF ProbeReadFails, Finish
<1>10. CASE ProbeRestore
  BY <1>10, FocusCallPlaces DEF ProbeRestore, Finish, Goto
<1>11. CASE ProbeMatch
  BY <1>11 DEF ProbeMatch, Goto, NextLayer, wmVars, Session
<1>12. CASE Refocus
  BY <1>12, FocusCallPlaces DEF Refocus
<1>13. CASE PrepareMerge
  BY <1>13 DEF PrepareMerge, Goto, StartProbe, wmVars, Session
<1>14. CASE InPlaceFocus
  BY <1>14 DEF InPlaceFocus, Goto, StartProbe, wmVars, Session
<1>15. CASE InPlaceFocusFails
  BY <1>15 DEF InPlaceFocusFails, Finish, wmVars
<1>16. CASE InPlaceRead
  BY <1>16 DEF InPlaceRead, Goto, wmVars, Session
<1>17. CASE InPlaceLeftWindow
  BY <1>17, FocusCallPlaces DEF InPlaceLeftWindow
<1>18. CASE InPlaceReadFails
  BY <1>18 DEF InPlaceReadFails, Finish, wmVars
<1>19. CASE MergeInPlace
  BY <1>19 DEF MergeInPlace, Finish, wmVars
<1>20. CASE MergeInPlaceFails
  BY <1>20 DEF MergeInPlaceFails, wmVars
<1>21. CASE Merge
  BY <1>21, MergedPlaces DEF Merge
<1>22. CASE MergeFails
  BY <1>22, MergedPlaces DEF MergeFails
<1>23. CASE CleanupFocus
  BY <1>23, FocusCallPlaces DEF CleanupFocus, Goto
<1>24. CASE CleanupClose
  <2>1. (s.source \in windows /\ Removed(s.source)) \/ UNCHANGED <<windows, focus, at>>
    BY <1>24 DEF CleanupClose, ClosedAfterMerge
  <2>2. UNCHANGED <<used, expected, s>> /\ pc' = "idle"
    BY <1>24 DEF CleanupClose, Finish, LoggedError
  <2>. QED
    BY <2>1, <2>2, RemovedPlaces
<1>25. CASE Snapshot
  BY <1>25 DEF Snapshot, wmVars, Session
<1>26. CASE MoveOut
  <2>1. PICK p \in PanesIn(s.source) :
            /\ MovePanes({p}, Detached) /\ s' = [s EXCEPT !.cargo = {p}]
            /\ expected' = expected \/ expected' = expected \cup {p}
    BY <1>26 DEF MoveOut
  <2>2. p \in Pane
    BY DEF PanesIn
  <2>3. at' \in [Pane -> windows \cup {Detached, Gone}] /\ at'[p] = Detached
        /\ \A q \in expected : at'[q] = Detached
    BY <2>1, <2>2, MovePanesPlaces DEF MovePanes
  <2>4. s'.source = s.source /\ UNCHANGED <<windows, used, focus>> /\ pc # "idle"
    BY <1>26, <2>1 DEF MoveOut, Session
  <2>. QED
    BY <2>1, <2>3, <2>4
<1>27. CASE MoveOutFails
  <2>1. UNCHANGED <<windows, used, focus, expected>> /\ pc' = "idle"
    BY <1>27 DEF MoveOutFails, Finish
  <2>2. UNCHANGED at \/ \E p \in PanesIn(s.source) : MovePanes({p}, Detached)
    BY <1>27 DEF MoveOutFails
  <2>. QED
    BY <2>1, <2>2, MovePanesPlaces
<1>28. CASE Spawn
  BY <1>28 DEF Spawn, Goto, Finish, Torn
<1>29. CASE Poll
  BY <1>29 DEF Poll, Goto, wmVars, Session
<1>30. CASE PollsDone
  BY <1>30 DEF PollsDone, Goto, wmVars, Session
<1>31. CASE FocusNew
  BY <1>31, FocusCallPlaces DEF FocusNew, Goto
<1>32. CASE PlaceFocus
  BY <1>32, FocusCallPlaces DEF PlaceFocus, Finish, Goto
<1>33. CASE PlaceRead
  BY <1>33 DEF PlaceRead, Goto, Finish, wmVars
<1>34. CASE Place
  BY <1>34 DEF Place, Finish, wmVars
<1>35. CASE RouteRead
  BY <1>35 DEF RouteRead, Goto, Finish, StartProbe, wmVars, Session
<1>36. CASE Transfer
  <2>1. UNCHANGED <<windows, used, focus, expected, s>> /\ pc # "idle"
    BY <1>36 DEF Transfer
  <2>2. \/ UNCHANGED at
        \/ s.target \in windows /\ \E p \in PanesIn(s.source) : MovePanes({p}, s.target)
    BY <1>36 DEF Transfer
  <2>3. ASSUME NEW p \in PanesIn(s.source), s.target \in windows, MovePanes({p}, s.target)
        PROVE  at' \in [Pane -> windows \cup {Detached, Gone}] /\ \A q \in expected : at'[q] = Detached
    <3>1. p \notin expected
      BY <2>1, SourceShown
    <3>. QED
      BY <2>3, <3>1, MovePanesPlaces
  <2>. QED
    BY <2>1, <2>2, <2>3
<1>37. CASE WmMove
  BY <1>37 DEF WmMove, Finish, wmVars
<1>38. CASE UserFocuses
  BY <1>38 DEF UserFocuses
<1>39. CASE UserCloses
  BY <1>39, RemovedPlaces DEF UserCloses
<1>40. CASE StrangerAppears
  BY <1>40 DEF StrangerAppears
<1>41. CASE WindowAppears
  BY <1>41, ConstantsAssumption DEF WindowAppears
<1>42. CASE EmptyVanishes
  BY <1>42, RemovedPlaces DEF EmptyVanishes
<1>43. CASE UNCHANGED vars
  BY <1>43 DEF vars
<1>. QED
  BY <1>1, <1>2, <1>3, <1>4, <1>5, <1>6, <1>7, <1>8, <1>9, <1>10, <1>11, <1>12, <1>13, <1>14, <1>15,
     <1>16, <1>17, <1>18, <1>19, <1>20, <1>21, <1>22, <1>23, <1>24, <1>25, <1>26, <1>27, <1>28,
     <1>29, <1>30, <1>31, <1>32, <1>33, <1>34, <1>35, <1>36, <1>37, <1>38, <1>39, <1>40, <1>41,
     <1>42, <1>43 DEF Next, Request, Environment

\* Others only take panes from the windows there are, for windows that are new.
LEMMA EnvironmentShrinks ==
  ASSUME TypeOK, Places, Environment
  PROVE  /\ \A p \in Pane : \/ at'[p] = at[p]
                            \/ (at[p] # Detached /\ at'[p] = Gone)
                            \/ p \in expected /\ at'[p] \notin used
         /\ expected' \subseteq expected /\ UNCHANGED <<pc, s, probe>>
<1>. USE DEF TypeOK, ScreenOK, Places
<1>1. CASE UserFocuses \/ StrangerAppears
  BY <1>1 DEF UserFocuses, StrangerAppears
<1>2. CASE UserCloses \/ EmptyVanishes
  BY <1>2, ConstantsAssumption DEF UserCloses, EmptyVanishes, Removed, Detached
<1>3. CASE WindowAppears
  BY <1>3 DEF WindowAppears
<1>. QED
  BY <1>1, <1>2, <1>3 DEF Environment

\* So they leave the cargo what it is.
LEMMA EnvironmentCargo ==
  ASSUME TypeOK, Places, Cargo, Environment
  PROVE  Cargo'
<1>1. /\ \A p \in Pane : \/ at'[p] = at[p]
                         \/ (at[p] # Detached /\ at'[p] = Gone)
                         \/ p \in expected /\ at'[p] \notin used
      /\ expected' \subseteq expected /\ UNCHANGED <<pc, s, probe>>
  BY EnvironmentShrinks
<1>2. ASSUME pc # "idle" PROVE PanesIn(s.source)' \subseteq PanesIn(s.source)
  <2>1. s.source \in used /\ s.source # Gone
    BY <1>2, ConstantsAssumption DEF Places, TypeOK, ScreenOK, Gone
  <2>. QED
    BY <1>1, <2>1 DEF PanesIn
<1>4. LastPane /\ pc # "idle" => LastPane'
  BY <1>1, <1>2 DEF LastPane
<1>5. pc = "prepare" => (\A p, q \in PanesIn(s.source) : p = q)'
  BY <1>1, <1>2 DEF Cargo
<1>6. pc \in {"cleanupFocus", "cleanupClose"} => (s.source = s.target \/ PanesIn(s.source) = {})'
  BY <1>1, <1>2 DEF Cargo
<1>. QED
  BY <1>1, <1>4, <1>5, <1>6 DEF Cargo, Probing

\* What is torn out is still detached when its window is asked for.
LEMMA TornStep ==
  ASSUME TypeOK, Places, Torn, [Next]_vars
  PROVE  Torn'
<1>. USE DEF TypeOK, ControlOK, PcValues, Torn
<1>0. ASSUME Environment PROVE Torn'
  <2>. SUFFICES ASSUME pc' = "spawn" PROVE (\E p \in Pane : s.cargo = {p} /\ at[p] = Detached /\ p \notin expected)'
    OBVIOUS
  <2>1. UNCHANGED <<pc, s>> /\ pc = "spawn"
    BY <1>0, EnvironmentShrinks
  <2>2. PICK p \in Pane : s.cargo = {p} /\ at[p] = Detached /\ p \notin expected
    BY <2>1
  <2>3. at'[p] = Detached /\ p \notin expected'
    BY <1>0, <2>2, EnvironmentShrinks
  <2>. QED
    BY <2>1, <2>2, <2>3
<1>1. CASE Begin
  BY <1>1 DEF Begin
<1>2. CASE BeginFails
  BY <1>2 DEF BeginFails
<1>3. CASE ChainExhausted
  BY <1>3 DEF ChainExhausted, Goto
<1>4. CASE LayerDecides
  BY <1>4 DEF LayerDecides, Goto, Finish
<1>5. CASE LayerFails
  BY <1>5 DEF LayerFails, Finish
<1>6. CASE Unmerged
  BY <1>6 DEF Unmerged, Goto, StartProbe, NextLayer
<1>7. CASE ProbeFocus
  BY <1>7, CallerType DEF ProbeFocus, Goto, ProbeNone
<1>8. CASE ProbeRead
  BY <1>8, CallerType DEF ProbeRead, Goto, ProbeNone
<1>9. CASE ProbeReadFails
  BY <1>9 DEF ProbeReadFails, Finish
<1>10. CASE ProbeRestore
  BY <1>10 DEF ProbeRestore, Goto, Finish
<1>11. CASE ProbeMatch
  BY <1>11 DEF ProbeMatch, Goto, NextLayer, ProbeNone
<1>12. CASE Refocus
  BY <1>12 DEF Refocus
<1>13. CASE PrepareMerge
  BY <1>13 DEF PrepareMerge, Goto, StartProbe
<1>14. CASE InPlaceFocus
  BY <1>14 DEF InPlaceFocus, Goto, StartProbe
<1>15. CASE InPlaceFocusFails
  BY <1>15 DEF InPlaceFocusFails, Finish
<1>16. CASE InPlaceRead
  BY <1>16 DEF InPlaceRead, Goto
<1>17. CASE InPlaceLeftWindow
  BY <1>17 DEF InPlaceLeftWindow
<1>18. CASE InPlaceReadFails
  BY <1>18 DEF InPlaceReadFails, Finish
<1>19. CASE MergeInPlace
  BY <1>19 DEF MergeInPlace, Finish
<1>20. CASE MergeInPlaceFails
  BY <1>20 DEF MergeInPlaceFails
<1>21. CASE Merge
  BY <1>21 DEF Merge
<1>22. CASE MergeFails
  BY <1>22 DEF MergeFails
<1>23. CASE CleanupFocus
  BY <1>23 DEF CleanupFocus, Goto
<1>24. CASE CleanupClose
  BY <1>24 DEF CleanupClose, Finish
<1>25. CASE Snapshot
  BY <1>25 DEF Snapshot
<1>26. CASE MoveOut
  <2>1. PICK p \in PanesIn(s.source) :
            /\ MovePanes({p}, Detached) /\ s' = [s EXCEPT !.cargo = {p}]
            /\ pc' = "spawn" => expected' = expected
    BY <1>26 DEF MoveOut
  <2>2. p \in Pane /\ p \notin expected
    BY <1>26, SourceShown DEF MoveOut
  <2>3. s'.cargo = {p} /\ at'[p] = Detached
    BY <2>1, <2>2 DEF MovePanes, Session
  <2>4. pc' \in {"spawn", "poll"}
    BY <1>26 DEF MoveOut
  <2>. QED
    BY <2>1, <2>2, <2>3, <2>4
<1>27. CASE MoveOutFails
  BY <1>27 DEF MoveOutFails, Finish
<1>28. CASE Spawn
  BY <1>28 DEF Spawn, Goto, Finish
<1>29. CASE Poll
  BY <1>29 DEF Poll, Goto
<1>30. CASE PollsDone
  BY <1>30 DEF PollsDone, Goto
<1>31. CASE FocusNew
  BY <1>31 DEF FocusNew, Goto
<1>32. CASE PlaceFocus
  BY <1>32 DEF PlaceFocus, Goto, Finish
<1>33. CASE PlaceRead
  BY <1>33 DEF PlaceRead, Goto, Finish
<1>34. CASE Place
  BY <1>34 DEF Place, Finish
<1>35. CASE RouteRead
  BY <1>35 DEF RouteRead, Goto, Finish, StartProbe
<1>36. CASE Transfer
  <2>1. pc' \in {"idle", "wmMove"}
    BY <1>36 DEF Transfer, TransferDone, Finish, Goto
  <2>. QED
    BY <2>1
<1>37. CASE WmMove
  BY <1>37 DEF WmMove, Finish
<1>38. CASE UserFocuses
  BY <1>38, <1>0 DEF UserFocuses, Environment
<1>39. CASE UserCloses
  BY <1>39, <1>0 DEF UserCloses, Environment
<1>40. CASE StrangerAppears
  BY <1>40, <1>0 DEF StrangerAppears, Environment
<1>41. CASE WindowAppears
  BY <1>41, <1>0 DEF WindowAppears, Environment
<1>42. CASE EmptyVanishes
  BY <1>42, <1>0 DEF EmptyVanishes, Environment
<1>43. CASE UNCHANGED vars
  BY <1>43 DEF vars
<1>. QED
  BY <1>1, <1>2, <1>3, <1>4, <1>5, <1>6, <1>7, <1>8, <1>9, <1>10, <1>11, <1>12, <1>13, <1>14, <1>15,
     <1>16, <1>17, <1>18, <1>19, <1>20, <1>21, <1>22, <1>23, <1>24, <1>25, <1>26, <1>27, <1>28,
     <1>29, <1>30, <1>31, <1>32, <1>33, <1>34, <1>35, <1>36, <1>37, <1>38, <1>39, <1>40, <1>41,
     <1>42, <1>43 DEF Next, Request, Environment
\* An adapter that yields although it could merge is left with one pane at most.
LEMMA YieldsLastPane ==
  ASSUME MergesLastPane, TypeOK, SessionOK, pc = "layer", s.layer \in LayersOf(s.source),
         Profile[App].merge, "Passthrough" \in Decisions(App, s.source)
  PROVE  \A p, q \in PanesIn(s.source) : p = q
<1>. DEFINE S == PanesIn(s.source)
<1>1. App \in Adapter
  BY AppType DEF SessionOK
<1>2. Cardinality(S) <= 1
  BY <1>1 DEF MergesLastPane, Decisions
<1>3. IsFiniteSet(S)
  BY FS_Subset DEF MergesLastPane, PanesIn
<1>4. Cardinality(S) \in Nat
  BY <1>3, FS_CardinalityType
<1>5. Cardinality(S) = 0 \/ Cardinality(S) = 1
  BY <1>2, <1>4
<1>6. S = {} \/ \E p : S = {p}
  BY <1>3, <1>5, FS_EmptySet, FS_Singleton
<1>. QED
  BY <1>6

\* Every step keeps what is known of the cargo.
LEMMA CargoStep ==
  ASSUME MergesLastPane, TypeOK, SessionOK, Places, Cargo, [Next]_vars
  PROVE  Cargo'
<1>. USE DEF TypeOK, ControlOK, PcValues, Cargo, Probing
<1>1. CASE Begin
  BY <1>1 DEF Begin, wmVars, Session, PanesIn, LastPane
<1>2. CASE BeginFails
  BY <1>2 DEF BeginFails, wmVars, Session, PanesIn, LastPane
<1>3. CASE ChainExhausted
  BY <1>3 DEF ChainExhausted, Goto, wmVars, PanesIn, LastPane
<1>4. CASE LayerDecides
  <2>1. PICK d \in Decisions(App, s.source) :
            \/ d = "Passthrough" /\ pc' = IF Profile[App].merge THEN "prepare" ELSE "unmerged"
            \/ pc' \in {"snapshot", "idle"}
    BY <1>4 DEF LayerDecides, Goto, Finish
  <2>2. pc' = "prepare" => \A p, q \in PanesIn(s.source) : p = q
    BY <1>4, <2>1, YieldsLastPane DEF LayerDecides
  <2>3. PanesIn(s.source)' = PanesIn(s.source)
    BY <1>4 DEF LayerDecides, wmVars, PanesIn
  <2>. QED
    BY <2>1, <2>2, <2>3
<1>5. CASE LayerFails
  BY <1>5 DEF LayerFails, Finish, wmVars, PanesIn, LastPane
<1>6. CASE Unmerged
  BY <1>6 DEF Unmerged, Goto, StartProbe, NextLayer, wmVars, Session, PanesIn, LastPane
<1>7. CASE ProbeFocus
  BY <1>7 DEF ProbeFocus, Goto, ProbeNone, PanesIn, LastPane
<1>8. CASE ProbeRead
  BY <1>8 DEF ProbeRead, Goto, ProbeNone, wmVars, Session, PanesIn, LastPane
<1>9. CASE ProbeReadFails
  BY <1>9 DEF ProbeReadFails, Finish, PanesIn, LastPane
<1>10. CASE ProbeRestore
  BY <1>10 DEF ProbeRestore, Goto, Finish, PanesIn, LastPane
<1>11. CASE ProbeMatch
  BY <1>11 DEF ProbeMatch, Goto, NextLayer, ProbeNone, wmVars, Session, PanesIn, LastPane
<1>12. CASE Refocus
  BY <1>12 DEF Refocus, PanesIn, LastPane
<1>13. CASE PrepareMerge
  <2>1. UNCHANGED at /\ pc = "prepare"
    BY <1>13 DEF PrepareMerge, wmVars
  <2>2. CASE UNCHANGED <<s, probe>> /\ pc' = "unmerged"
    BY <2>2
  <2>3. ASSUME NEW p \in PanesIn(s.source), s' = [s EXCEPT !.cargo = {p}, !.outer = s.layer + 1],
               pc' = "inPlace" \/ pc' = "probe"
        PROVE  Cargo'
    <3>1. s'.source = s.source /\ s'.cargo = {p} /\ p \in Pane
      BY <2>3 DEF Session, PanesIn
    <3>2. PanesIn(s.source)' \subseteq {p}
      BY <2>1, <3>1 DEF PanesIn
    <3>. QED
      BY <2>3, <3>1, <3>2 DEF LastPane
  <2>. QED
    BY <1>13, <2>2, <2>3 DEF PrepareMerge, Goto, StartProbe
<1>14. CASE InPlaceFocus
  BY <1>14 DEF InPlaceFocus, Goto, StartProbe, wmVars, Session, PanesIn, LastPane
<1>15. CASE InPlaceFocusFails
  BY <1>15 DEF InPlaceFocusFails, Finish, wmVars, PanesIn, LastPane
<1>16. CASE InPlaceRead
  BY <1>16 DEF InPlaceRead, Goto, wmVars, Session, PanesIn, LastPane
<1>17. CASE InPlaceLeftWindow
  BY <1>17 DEF InPlaceLeftWindow, Session, PanesIn, LastPane
<1>18. CASE InPlaceReadFails
  BY <1>18 DEF InPlaceReadFails, Finish, wmVars, PanesIn, LastPane
<1>19. CASE MergeInPlace
  BY <1>19 DEF MergeInPlace, Finish, wmVars, PanesIn, LastPane
<1>20. CASE MergeInPlaceFails
  BY <1>20 DEF MergeInPlaceFails, wmVars, PanesIn, LastPane
<1>21. CASE Merge
  <2>1. PICK p \in Pane : s.cargo = {p} /\ PanesIn(s.source) \subseteq {p}
    BY <1>21 DEF Merge, LastPane
  <2>2. s.source # s.target => (PanesIn(s.source) = {})'
    BY <1>21, <2>1 DEF Merge, MovePanes, PanesIn
  <2>3. UNCHANGED s /\ pc' = "cleanupFocus"
    BY <1>21 DEF Merge
  <2>. QED
    BY <2>2, <2>3
<1>22. CASE MergeFails
  BY <1>22 DEF MergeFails, PanesIn, LastPane
<1>23. CASE CleanupFocus
  BY <1>23 DEF CleanupFocus, Goto, PanesIn, LastPane
<1>24. CASE CleanupClose
  BY <1>24 DEF CleanupClose, Finish, PanesIn, LastPane
<1>25. CASE Snapshot
  BY <1>25 DEF Snapshot
<1>26. CASE MoveOut
  BY <1>26 DEF MoveOut
<1>27. CASE MoveOutFails
  BY <1>27 DEF MoveOutFails, Finish, Session, PanesIn, LastPane
<1>28. CASE Spawn
  BY <1>28 DEF Spawn, Goto, Finish, PanesIn, LastPane
<1>29. CASE Poll
  BY <1>29 DEF Poll, Goto
<1>30. CASE PollsDone
  BY <1>30 DEF PollsDone, Goto
<1>31. CASE FocusNew
  BY <1>31 DEF FocusNew, Goto, PanesIn, LastPane
<1>32. CASE PlaceFocus
  BY <1>32 DEF PlaceFocus, Goto, Finish, PanesIn, LastPane
<1>33. CASE PlaceRead
  BY <1>33 DEF PlaceRead, Goto, Finish, wmVars, PanesIn, LastPane
<1>34. CASE Place
  BY <1>34 DEF Place, Finish, wmVars, PanesIn, LastPane
<1>35. CASE RouteRead
  BY <1>35 DEF RouteRead, Goto, Finish, StartProbe, wmVars, Session, PanesIn, LastPane
<1>36. CASE Transfer
  <2>1. pc' \in {"idle", "wmMove"}
    BY <1>36 DEF Transfer, TransferDone, Finish, Goto
  <2>. QED
    BY <2>1
<1>37. CASE WmMove
  BY <1>37 DEF WmMove, Finish, wmVars, PanesIn, LastPane
<1>38. CASE UserFocuses
  BY <1>38, EnvironmentCargo DEF UserFocuses, Environment
<1>39. CASE UserCloses
  BY <1>39, EnvironmentCargo DEF UserCloses, Environment
<1>40. CASE StrangerAppears
  BY <1>40, EnvironmentCargo DEF StrangerAppears, Environment
<1>41. CASE WindowAppears
  BY <1>41, EnvironmentCargo DEF WindowAppears, Environment
<1>42. CASE EmptyVanishes
  BY <1>42, EnvironmentCargo DEF EmptyVanishes, Environment
<1>43. CASE UNCHANGED vars
  BY <1>43 DEF vars, PanesIn, LastPane
<1>. QED
  BY <1>1, <1>2, <1>3, <1>4, <1>5, <1>6, <1>7, <1>8, <1>9, <1>10, <1>11, <1>12, <1>13, <1>14, <1>15,
     <1>16, <1>17, <1>18, <1>19, <1>20, <1>21, <1>22, <1>23, <1>24, <1>25, <1>26, <1>27, <1>28,
     <1>29, <1>30, <1>31, <1>32, <1>33, <1>34, <1>35, <1>36, <1>37, <1>38, <1>39, <1>40, <1>41,
     <1>42, <1>43 DEF Next, Request, Environment

\* Hence the invariant is inductive.
LEMMA CInvStep == ASSUME MergesLastPane, CInv, [Next]_vars PROVE CInv'
<1>1. TypeOK /\ SessionOK /\ IInv'
  BY IInvStep DEF CInv, IInv
<1>. QED
  BY <1>1, TallyStep, PlacesStep, TornStep, CargoStep DEF CInv

\* It holds at first.
LEMMA CInvInit == Init => CInv
<1>. SUFFICES ASSUME Init PROVE CInv
  OBVIOUS
<1>1. IInv
  BY IInvInit
<1>2. Places /\ pc = "idle"
  BY ConstantsAssumption DEF Init, Places
<1>. QED
  BY <1>1, <1>2 DEF CInv, Balanced, Undecided, Acted, Torn, Cargo, Probing

----------------------------------------------------------------------------
(* The refinement                                                          *)

\* How a request stands with its contract at each step.
StageRight ==
  /\ pc = "idle" => Stage = "idle"
  /\ pc \in Undecided => Stage = "pending" /\ h.result = "none"
  /\ pc \in Acted => Stage = "acted" /\ h.result = "none"

\* So says the tally, before a step and after it.
LEMMA StageAt ==
  ASSUME CInv, CInv'
  PROVE  StageRight /\ StageRight'
<1>1. ASSUME NEW c, NEW g, c \in Undecided => Pending(g), c \in Acted => Effected(g)
      PROVE  /\ c \in Undecided => ~(g.relocations > g.late) /\ g.result = "none" /\ c # "idle"
             /\ c \in Acted => g.relocations > g.late /\ g.result = "none" /\ c # "idle"
  <2>1. CASE c \in Undecided
    BY <1>1, <2>1 DEF Pending, History, Undecided, Acted
  <2>2. CASE c \in Acted
    BY <1>1, <2>2 DEF Effected, History, Undecided, Acted
  <2>. QED
    BY <2>1, <2>2
<1>. QED
  BY <1>1 DEF CInv, Balanced, Stage, StageRight

\* A step may leave panes and windows where they are, and the effect where it stands.
Quiet ==
  /\ UNCHANGED <<windows, at>>
  /\ (pc \in Undecided /\ pc' \in Undecided) \/ (pc \in Acted /\ pc' \in Acted)

\* It is then no step of the contract.
LEMMA Stutters ==
  ASSUME StageRight, StageRight', Quiet
  PROVE  UNCHANGED Contract!vars
  BY DEF Quiet, StageRight, Contract!vars

\* An effect, late or not, is one pane that leaves its window.
LEMMA OneLeaves ==
  ASSUME TypeOK, Places, pc # "idle", NEW p \in PanesIn(s.source), NEW w \in windows \cup {Detached},
         MovePanes({p}, w), UNCHANGED windows
  PROVE  Contract!OnePaneMoves
<1>1. p \in Pane /\ at[p] \in windows
  BY SourceShown
<1>2. at' = [at EXCEPT ![p] = w]
  BY <1>1 DEF MovePanes, Places
<1>. QED
  BY <1>1, <1>2 DEF Contract!OnePaneMoves

\* So it is for the cargo of a merge.
LEMMA CargoLeaves ==
  ASSUME TypeOK, Places, Cargo, pc = "merge", MergePossible, MovePanes(s.cargo, s.target), UNCHANGED windows
  PROVE  Contract!OnePaneMoves
<1>1. PICK p \in Pane : s.cargo = {p}
  BY DEF Cargo, LastPane
<1>2. p \in PanesIn(s.source) /\ s.target \in windows
  BY <1>1 DEF MergePossible, PanesIn
<1>. QED
  BY <1>1, <1>2, OneLeaves

\* A request that ends with its effect to come: it failed, or had the effect at
\* its last call.
LEMMA EndsPending ==
  ASSUME StageRight, StageRight', pc \in Undecided, NEW hist, NEW r \in {"ok", "appErr", "wmErr"},
         Finish(hist, r), hist \in History, UNCHANGED windows,
         UNCHANGED at \/ Contract!OnePaneMoves
  PROVE  Contract!Next
<1>1. Stage = "pending" /\ Stage' = "idle" /\ h'.result = r
  BY DEF StageRight, Finish, History
<1>. QED
  BY <1>1 DEF Contract!Next, Contract!Relocate, Contract!Rearrange, Contract!Misreport,
     Contract!Ends, Contract!Error

\* A request that ends well after its effect.
LEMMA EndsActed ==
  ASSUME StageRight, StageRight', pc \in Acted, NEW hist, hist \in History,
         Finish(hist, "ok"), UNCHANGED <<windows, at>>
  PROVE  Contract!Next
<1>1. Stage = "acted" /\ Stage' = "idle" /\ h'.result = "ok"
  BY DEF StageRight, Finish, History
<1>. QED
  BY <1>1 DEF Contract!Next, Contract!Report, Contract!Ends

\* What the environment does is done by the world.
LEMMA EnvironmentIsWorld ==
  ASSUME CInv, CInv', StageRight, StageRight', Environment
  PROVE  Contract!World \/ UNCHANGED Contract!vars
<1>1. TypeOK /\ Places /\ h \in History
  BY DEF CInv, IInv, TypeOK
<1>2. UNCHANGED pc /\ (Disturb \/ UNCHANGED h)
  BY DEF Environment, UserFocuses, UserCloses, StrangerAppears, WindowAppears, EmptyVanishes
<1>3. h'.result = h.result
  BY <1>1, <1>2, DisturbedTally DEF Disturb
<1>4. UNCHANGED Stage
  BY <1>1, <1>2 DEF StageRight, Undecided, TypeOK, ControlOK
<1>5. CASE UserFocuses
  BY <1>3, <1>4, <1>5 DEF UserFocuses, Contract!vars
<1>6. CASE UserCloses \/ EmptyVanishes
  <2>1. PICK w \in windows : Removed(w)
    BY <1>6 DEF UserCloses, EmptyVanishes
  <2>. QED
    BY <1>3, <1>4, <2>1 DEF Removed, Contract!World
<1>7. CASE StrangerAppears
  BY <1>1, <1>3, <1>4, <1>7 DEF StrangerAppears, Contract!World, TypeOK, ScreenOK
<1>8. CASE WindowAppears
  <2>1. PICK p \in expected, w \in Window \ used :
          windows' = windows \cup {w} /\ at' = [at EXCEPT ![p] = w]
    BY <1>8 DEF WindowAppears
  <2>2. p \in Pane /\ at[p] = Detached /\ w \in Window \ windows
    BY <1>1, <2>1 DEF TypeOK, ScreenOK, Places
  <2>. QED
    BY <1>3, <1>4, <2>1, <2>2 DEF Contract!World
<1>. QED
  BY <1>5, <1>6, <1>7, <1>8 DEF Environment

\* Every step is a step of the contract.
LEMMA StepRefines ==
  ASSUME CInv, CInv', [Next]_vars
  PROVE  [Contract!Next]_(Contract!vars)
<1>. USE StageAt, InHistory DEF PcValues, Undecided, Acted
<1>0. /\ TypeOK /\ Places /\ Torn /\ Cargo /\ StageRight /\ StageRight' /\ h \in History /\ h' \in History
      /\ pc \in PcValues /\ pc' \in PcValues
  BY DEF CInv, IInv, TypeOK, ControlOK
<1>00. ProbeNone \in {"unmerged", "snapshot", "wmMove"}
  BY <1>0, CallerType DEF TypeOK, ProbeNone
<1>1. CASE Begin
  BY <1>1, <1>0 DEF Begin, wmVars, Fresh, StageRight, Contract!Next, Contract!Start
<1>2. CASE BeginFails
  BY <1>2, <1>0 DEF BeginFails, wmVars, Fresh, StageRight, Contract!Next, Contract!Start,
     Contract!Ends, Contract!Error, History
<1>3. CASE ChainExhausted
  BY <1>3, <1>0, Stutters DEF ChainExhausted, Quiet, wmVars, Goto
<1>4. CASE LayerDecides
  <2>1. Relocated(FALSE) \in History /\ UNCHANGED <<windows, at>> /\ pc = "layer"
    BY <1>0, CountedTally, <1>4 DEF LayerDecides, CInv, Balanced, Effected, wmVars
  <2>2. CASE Finish(Relocated(FALSE), "ok")
    BY <1>0, <2>1, <2>2, EndsPending
  <2>3. CASE pc' \in {"prepare", "unmerged", "snapshot"}
    BY <1>0, <2>1, <2>3, Stutters DEF Quiet
  <2>. QED
    BY <1>4, <2>2, <2>3 DEF LayerDecides, Goto
<1>5. CASE LayerFails
  <2>1. Relocated(TRUE) \in History
    BY <1>0, CountedTally, <1>5 DEF LayerFails, CInv, Balanced, Pending
  <2>. QED
    BY <1>5, <1>0, <2>1, EndsPending DEF LayerFails, wmVars
<1>6. CASE Unmerged
  BY <1>6, <1>0, Stutters DEF Unmerged, Quiet, wmVars, Goto, StartProbe, NextLayer
<1>7. CASE ProbeFocus
  BY <1>7, <1>0, <1>00, Stutters DEF ProbeFocus, Quiet, Goto
<1>8. CASE ProbeRead
  BY <1>8, <1>0, <1>00, Stutters DEF ProbeRead, Quiet, wmVars, Goto
<1>9. CASE ProbeReadFails
  <2>1. ASSUME NEW b \in BOOLEAN PROVE Disturbed(h, b) \in History
    BY <1>0, DisturbedTally, <1>9 DEF ProbeReadFails, CInv, Balanced, Pending
  <2>2. (focus' # s.source) \in BOOLEAN
    OBVIOUS
  <2>. QED
    BY <1>9, <1>0, <2>1, <2>2, EndsPending DEF ProbeReadFails
<1>10. CASE ProbeRestore
  <2>1. Disturbed(h, TRUE) \in History
    BY <1>0, DisturbedTally, <1>10 DEF ProbeRestore, CInv, Balanced, Pending
  <2>2. CASE Goto("probeMatch")
    BY <1>10, <1>0, <2>2, Stutters DEF ProbeRestore, Quiet, Goto
  <2>3. CASE Finish(Disturbed(h, TRUE), "wmErr")
    BY <1>10, <1>0, <2>1, <2>3, EndsPending DEF ProbeRestore
  <2>. QED
    BY <1>10, <2>2, <2>3 DEF ProbeRestore
<1>11. CASE ProbeMatch
  <2>1. UNCHANGED <<windows, at>> /\ pc = "probeMatch"
    BY <1>11 DEF ProbeMatch, wmVars
  <2>2. pc' \in {"merge", "layer", "transfer", "refocus", "unmerged", "snapshot", "wmMove"}
    BY <1>11, <1>0, <1>00, CallerType DEF ProbeMatch, NextLayer, Goto, TypeOK
  <2>. QED
    BY <1>0, <2>1, <2>2, Stutters DEF Quiet
<1>12. CASE Refocus
  BY <1>12, <1>0, Stutters DEF Refocus, Quiet
<1>13. CASE PrepareMerge
  BY <1>13, <1>0, Stutters DEF PrepareMerge, Quiet, wmVars, Goto, StartProbe
<1>14. CASE InPlaceFocus
  BY <1>14, <1>0, Stutters DEF InPlaceFocus, Quiet, wmVars, Goto, StartProbe
<1>15. CASE InPlaceFocusFails
  BY <1>15, <1>0, EndsPending DEF InPlaceFocusFails, wmVars
<1>16. CASE InPlaceRead
  BY <1>16, <1>0, Stutters DEF InPlaceRead, Quiet, wmVars, Goto
<1>17. CASE InPlaceLeftWindow
  BY <1>17, <1>0, Stutters DEF InPlaceLeftWindow, Quiet
<1>18. CASE InPlaceReadFails
  BY <1>18, <1>0, EndsPending DEF InPlaceReadFails, wmVars
<1>19. CASE MergeInPlace
  <2>1. Counted(FALSE) \in History
    BY <1>0, CountedTally, <1>19 DEF MergeInPlace, CInv, Balanced, Effected
  <2>. QED
    BY <1>19, <1>0, <2>1, EndsPending DEF MergeInPlace, wmVars
<1>20. CASE MergeInPlaceFails
  BY <1>20, <1>0, Stutters DEF MergeInPlaceFails, Quiet, wmVars
<1>21. CASE Merge
  <2>1. Contract!OnePaneMoves
    BY <1>21, <1>0, CargoLeaves DEF Merge
  <2>2. Stage = "pending" /\ Stage' = "acted" /\ h'.result = h.result
    BY <1>21, <1>0 DEF Merge, StageRight
  <2>. QED
    BY <2>1, <2>2 DEF Contract!Next, Contract!Relocate
<1>22. CASE MergeFails
  <2>1. Stage = "pending" /\ Stage' = "pending" /\ h'.result = h.result
    BY <1>22, <1>0 DEF MergeFails, StageRight
  <2>2. UNCHANGED <<windows, at>> \/ Contract!OnePaneMoves
    BY <1>22, <1>0, CargoLeaves DEF MergeFails
  <2>. QED
    BY <2>1, <2>2 DEF Contract!Next, Contract!Misreport, Contract!vars
<1>23. CASE CleanupFocus
  BY <1>23, <1>0, Stutters DEF CleanupFocus, Quiet, Goto
<1>24. CASE CleanupClose
  <2>1. pc = "cleanupClose" /\ Finish(h, "ok")
    BY <1>24 DEF CleanupClose, LoggedError
  <2>2. CASE UNCHANGED <<windows, at>>
    BY <1>0, <2>1, <2>2, EndsActed
  <2>3. CASE s.source \in windows /\ s.source # s.target /\ Removed(s.source)
    <3>1. \A p \in Pane : at[p] # s.source
      BY <1>0, <2>1, <2>3 DEF Cargo, PanesIn
    <3>2. windows' = windows \ {s.source} /\ at' = at
      BY <1>0, <2>3, <3>1 DEF Removed, Places
    <3>3. Stage = "acted" /\ Stage' = "idle" /\ h'.result = "ok"
      BY <1>0, <2>1 DEF StageRight, Finish, History
    <3>. QED
      BY <2>3, <3>1, <3>2, <3>3 DEF Contract!Next, Contract!Report, Contract!Ends
  <2>. QED
    BY <1>24, <2>2, <2>3 DEF CleanupClose, ClosedAfterMerge
<1>25. CASE Snapshot
  BY <1>25, <1>0, Stutters DEF Snapshot, Quiet, wmVars
<1>26. CASE MoveOut
  <2>1. Contract!OnePaneMoves
    BY <1>26, <1>0, OneLeaves DEF MoveOut
  <2>2. Stage = "pending" /\ Stage' = "acted" /\ h'.result = h.result
    BY <1>26, <1>0 DEF MoveOut, StageRight
  <2>. QED
    BY <2>1, <2>2 DEF Contract!Next, Contract!Relocate
<1>27. CASE MoveOutFails
  <2>1. Relocated(TRUE) \in History /\ pc = "moveOut" /\ UNCHANGED windows
    BY <1>0, CountedTally, <1>27 DEF MoveOutFails, CInv, Balanced, Pending
  <2>2. UNCHANGED at \/ Contract!OnePaneMoves
    BY <1>27, <1>0, OneLeaves DEF MoveOutFails
  <2>. QED
    BY <1>27, <1>0, <2>1, <2>2, EndsPending DEF MoveOutFails
<1>28. CASE Spawn
  <2>1. UNCHANGED <<windows, at>> /\ pc = "spawn"
    BY <1>28 DEF Spawn
  <2>2. CASE Finish(h, "wmErr")
    <3>1. Stage = "acted" /\ Stage' = "idle" /\ h'.result = "wmErr"
      BY <1>0, <2>1, <2>2 DEF StageRight, Finish, History
    <3>2. \E p \in Pane : at[p] = Detached
      BY <1>0, <2>1 DEF Torn
    <3>. QED
      BY <2>1, <3>1, <3>2 DEF Contract!Next, Contract!Report, Contract!Ends, Contract!Error
  <2>3. CASE pc' = "poll"
    BY <1>0, <2>1, <2>3, Stutters DEF Quiet
  <2>. QED
    BY <1>28, <2>2, <2>3 DEF Spawn, Goto
<1>29. CASE Poll
  BY <1>29, <1>0, Stutters DEF Poll, Quiet, wmVars, Goto
<1>30. CASE PollsDone
  BY <1>30, <1>0, Stutters DEF PollsDone, Quiet, wmVars, Goto
<1>31. CASE FocusNew
  BY <1>31, <1>0, Stutters DEF FocusNew, Quiet, Goto
<1>32. CASE PlaceFocus
  <2>1. UNCHANGED <<windows, at>> /\ pc = "placeFocus"
    BY <1>32 DEF PlaceFocus
  <2>2. CASE Finish(h, "ok")
    BY <1>0, <2>1, <2>2, EndsActed
  <2>3. CASE pc' = "placeRead"
    BY <1>0, <2>1, <2>3, Stutters DEF Quiet
  <2>. QED
    BY <1>32, <2>2, <2>3 DEF PlaceFocus, Goto, LoggedError
<1>33. CASE PlaceRead
  <2>1. UNCHANGED <<windows, at>> /\ pc = "placeRead"
    BY <1>33 DEF PlaceRead, wmVars
  <2>2. CASE Finish(h, "ok")
    BY <1>0, <2>1, <2>2, EndsActed
  <2>3. CASE pc' = "place"
    BY <1>0, <2>1, <2>3, Stutters DEF Quiet
  <2>. QED
    BY <1>33, <2>2, <2>3 DEF PlaceRead, Goto, LoggedError
<1>34. CASE Place
  <2>1. Shifted("placement") \in History
    BY <1>0 DEF Shifted, History, TypeOK, ScreenOK
  <2>. QED
    BY <1>34, <1>0, <2>1, EndsActed DEF Place, wmVars, LoggedError
<1>35. CASE RouteRead
  <2>1. UNCHANGED <<windows, at>> /\ pc = "route"
    BY <1>35 DEF RouteRead, wmVars
  <2>2. CASE Finish(h, "wmErr")
    BY <1>0, <2>1, <2>2, EndsPending
  <2>3. CASE pc' = "probe"
    BY <1>0, <2>1, <2>3, Stutters DEF Quiet
  <2>. QED
    BY <1>35, <2>2, <2>3 DEF RouteRead, StartProbe, Goto
<1>36. CASE Transfer
  <2>1. Relocated(FALSE) \in History /\ pc = "transfer" /\ UNCHANGED windows
    BY <1>0, CountedTally, <1>36 DEF Transfer, CInv, Balanced, Effected
  <2>2. UNCHANGED at \/ Contract!OnePaneMoves
    BY <1>36, <1>0, OneLeaves DEF Transfer
  <2>3. CASE Finish(Relocated(FALSE), "ok")
    BY <1>0, <2>1, <2>2, <2>3, EndsPending
  <2>4. CASE pc' = "wmMove"
    <3>1. Stage = "pending" /\ Stage' = "pending" /\ h'.result = h.result
      BY <1>0, <2>1, <2>4 DEF StageRight
    <3>. QED
      BY <2>1, <2>2, <3>1 DEF Contract!Next, Contract!Misreport, Contract!vars
  <2>. QED
    BY <1>36, <2>3, <2>4 DEF Transfer, TransferDone, Goto
<1>37. CASE WmMove
  <2>1. Shifted("fallback") \in History
    BY <1>0 DEF Shifted, History, TypeOK, ScreenOK
  <2>. QED
    BY <1>37, <1>0, <2>1, EndsPending DEF WmMove, wmVars
<1>38. CASE UserFocuses
  BY <1>38, <1>0, EnvironmentIsWorld DEF UserFocuses, Environment, Contract!Next
<1>39. CASE UserCloses
  BY <1>39, <1>0, EnvironmentIsWorld DEF UserCloses, Environment, Contract!Next
<1>40. CASE StrangerAppears
  BY <1>40, <1>0, EnvironmentIsWorld DEF StrangerAppears, Environment, Contract!Next
<1>41. CASE WindowAppears
  BY <1>41, <1>0, EnvironmentIsWorld DEF WindowAppears, Environment, Contract!Next
<1>42. CASE EmptyVanishes
  BY <1>42, <1>0, EnvironmentIsWorld DEF EmptyVanishes, Environment, Contract!Next
<1>43. CASE UNCHANGED vars
  BY <1>43 DEF vars, Contract!vars, Stage
<1>. QED
  BY <1>1, <1>2, <1>3, <1>4, <1>5, <1>6, <1>7, <1>8, <1>9, <1>10, <1>11, <1>12, <1>13, <1>14, <1>15,
     <1>16, <1>17, <1>18, <1>19, <1>20, <1>21, <1>22, <1>23, <1>24, <1>25, <1>26, <1>27, <1>28,
     <1>29, <1>30, <1>31, <1>32, <1>33, <1>34, <1>35, <1>36, <1>37, <1>38, <1>39, <1>40, <1>41,
     <1>42, <1>43 DEF Next, Request, Environment

\* A request keeps its contract, where what merges counts the panes of its window
\* (MoveSurface::decision_for): one effect, then the report, and no window is closed
\* while it shows something.
THEOREM RefinesContract == ASSUME MergesLastPane PROVE Spec => KeepsContract
<1>1. Init => Contract!Init
  BY ConstantsAssumption DEF Init, Contract!Init, Stage, Fresh
<1>2. CInv /\ CInv' /\ [Next]_vars => [Contract!Next]_(Contract!vars)
  BY StepRefines
<1>3. CInv /\ [Next]_vars => CInv'
  BY CInvStep
<1>. QED
  BY <1>1, <1>2, <1>3, CInvInit, PTL DEF Spec, KeepsContract, Contract!Spec

\* What ends in a close takes no pane with it.
ClosesEmpty == pc = "cleanupClose" /\ pc' = "idle" => \A p \in Pane : at'[p] = Gone => at[p] = Gone

\* Where what merges counts the panes of its window, the window closed after a merge
\* shows nothing (cleanup_merged_source_window).
THEOREM ClosesOnlyEmpty == ASSUME MergesLastPane PROVE Spec => ClosesOnlyEmptyWindows
<1>1. ASSUME CInv, [Next]_vars PROVE [ClosesEmpty]_vars
  <2>. SUFFICES ASSUME Next, pc = "cleanupClose", pc' = "idle" PROVE ClosesEmpty
    BY <1>1 DEF ClosesEmpty
  <2>1. CleanupClose
    BY DEF Next, Request, Environment, Begin, BeginFails, ChainExhausted, LayerDecides, LayerFails,
       Unmerged, ProbeFocus, ProbeRead, ProbeReadFails, ProbeRestore, ProbeMatch, Refocus,
       PrepareMerge, InPlaceFocus, InPlaceFocusFails, InPlaceRead, InPlaceLeftWindow,
       InPlaceReadFails, MergeInPlace, MergeInPlaceFails, Merge, MergeFails, CleanupFocus,
       CleanupClose, Snapshot, MoveOut, MoveOutFails, Spawn, Poll, PollsDone, FocusNew, PlaceFocus,
       PlaceRead, Place, RouteRead, Transfer, WmMove, UserFocuses, UserCloses, StrangerAppears,
       WindowAppears, EmptyVanishes, Goto, Finish, Disturb, Acts
  <2>2. UNCHANGED at \/ (Removed(s.source) /\ s.source # s.target)
    BY <2>1 DEF CleanupClose, ClosedAfterMerge
  <2>3. s.source # s.target => \A p \in Pane : at[p] # s.source
    BY <1>1 DEF CInv, Cargo, PanesIn
  <2>. QED
    BY <1>1, <2>2, <2>3 DEF Removed, ClosesEmpty
<1>2. CInv /\ [Next]_vars => CInv'
  BY CInvStep
<1>. QED
  BY <1>1, <1>2, CInvInit, PTL DEF Spec, ClosesOnlyEmptyWindows, ClosesEmpty

----------------------------------------------------------------------------
(* Nothing is stranded                                                     *)

\* A pane without a window has one to come ...
Awaited == \A p \in s.cargo : at[p] = Detached => p \in expected

\* ... except between its leaving and the request for the window, and where the
\* request failed there.
NoneStranded ==
  /\ pc \in Undecided => \A p \in s.cargo : at[p] # Detached
  /\ pc \in Acted \ {"spawn"} => Awaited
  /\ pc = "idle" /\ h.result = "ok" => Awaited

\* Only a window that has appeared is no longer awaited.
LEMMA EnvironmentAwaits ==
  ASSUME TypeOK, Places, Environment
  PROVE  /\ \A p \in Pane : at'[p] = Detached => at[p] = Detached /\ (p \in expected => p \in expected')
         /\ UNCHANGED <<pc, s>>
<1>. USE DEF TypeOK, ScreenOK, Places
<1>0. Detached # Gone /\ Detached \notin Window
  BY ConstantsAssumption DEF Detached, Gone
<1>1. CASE UserFocuses \/ StrangerAppears
  BY <1>1 DEF UserFocuses, StrangerAppears
<1>2. CASE UserCloses \/ EmptyVanishes
  BY <1>0, <1>2 DEF UserCloses, EmptyVanishes, Removed
<1>3. CASE WindowAppears
  BY <1>0, <1>3 DEF WindowAppears
<1>. QED
  BY <1>1, <1>2, <1>3 DEF Environment

\* Every step strands nothing.
LEMMA StrandedStep ==
  ASSUME TypeOK, Balanced, Places, Torn, NoneStranded, [Next]_vars
  PROVE  NoneStranded'
<1>. USE DEF TypeOK, ControlOK, PcValues, Undecided, Acted, NoneStranded, Awaited
<1>0. ASSUME Environment PROVE NoneStranded'
  <2>1. UNCHANGED <<pc, s>> /\ s.cargo \subseteq Pane
    BY <1>0, EnvironmentAwaits DEF Session
  <2>2. h'.result = h.result
    <3>1. Disturb \/ UNCHANGED h
      BY <1>0 DEF Environment, UserFocuses, UserCloses, StrangerAppears, WindowAppears,
         EmptyVanishes
    <3>. QED
      BY <3>1, DisturbedTally DEF Disturb
  <2>3. \A p \in s.cargo : at'[p] = Detached => at[p] = Detached /\ (p \in expected => p \in expected')
    BY <1>0, <2>1, EnvironmentAwaits
  <2>. QED
    BY <2>1, <2>2, <2>3
<1>00. Detached # Gone /\ Detached \notin Window /\ s.cargo \subseteq Pane
  BY ConstantsAssumption DEF Detached, Gone, Session
<1>1. CASE Begin
  BY <1>1 DEF Begin, NoSession
<1>2. CASE BeginFails
  BY <1>2 DEF BeginFails, Fresh, wmVars
<1>3. CASE ChainExhausted
  BY <1>3 DEF ChainExhausted, Goto, wmVars
<1>4. CASE LayerDecides
  BY <1>4 DEF LayerDecides, Goto, Finish, wmVars
<1>5. CASE LayerFails
  BY <1>5 DEF LayerFails, Finish, wmVars
<1>6. CASE Unmerged
  BY <1>6 DEF Unmerged, Goto, StartProbe, NextLayer, wmVars, Session
<1>7. CASE ProbeFocus
  BY <1>7, CallerType DEF ProbeFocus, Goto, ProbeNone
<1>8. CASE ProbeRead
  BY <1>8, CallerType DEF ProbeRead, Goto, ProbeNone, wmVars, Session
<1>9. CASE ProbeReadFails
  BY <1>9 DEF ProbeReadFails, Finish
<1>10. CASE ProbeRestore
  BY <1>10 DEF ProbeRestore, Goto, Finish
<1>11. CASE ProbeMatch
  BY <1>11, CallerType DEF ProbeMatch, Goto, ProbeNone, NextLayer, wmVars, Session
<1>12. CASE Refocus
  BY <1>12 DEF Refocus
<1>13. CASE PrepareMerge
  <2>1. UNCHANGED <<at, expected>> /\ pc = "prepare"
    BY <1>13 DEF PrepareMerge, wmVars
  <2>2. CASE UNCHANGED s /\ pc' = "unmerged"
    BY <2>1, <2>2
  <2>3. ASSUME NEW p \in PanesIn(s.source), s' = [s EXCEPT !.cargo = {p}, !.outer = s.layer + 1],
               pc' = "inPlace" \/ pc' = "probe"
        PROVE  NoneStranded'
    <3>1. s'.cargo = {p} /\ at[p] # Detached
      BY <1>00, <2>1, <2>3, SourceShown DEF Session, Places, ScreenOK
    <3>. QED
      BY <2>1, <2>3, <3>1
  <2>. QED
    BY <1>13, <2>2, <2>3 DEF PrepareMerge, Goto, StartProbe
<1>14. CASE InPlaceFocus
  BY <1>14 DEF InPlaceFocus, Goto, StartProbe, wmVars, Session
<1>15. CASE InPlaceFocusFails
  BY <1>15 DEF InPlaceFocusFails, Finish, wmVars
<1>16. CASE InPlaceRead
  BY <1>16 DEF InPlaceRead, Goto, wmVars, Session
<1>17. CASE InPlaceLeftWindow
  BY <1>17 DEF InPlaceLeftWindow, Session
<1>18. CASE InPlaceReadFails
  BY <1>18 DEF InPlaceReadFails, Finish, wmVars
<1>19. CASE MergeInPlace
  BY <1>19 DEF MergeInPlace, Finish, wmVars
<1>20. CASE MergeInPlaceFails
  BY <1>20 DEF MergeInPlaceFails, wmVars
<1>21. CASE Merge
  <2>1. s.target # Detached /\ \A p \in s.cargo : at'[p] = s.target
    BY <1>21, <1>00 DEF Merge, MergePossible, MovePanes, ScreenOK
  <2>. QED
    BY <1>21, <2>1 DEF Merge
<1>22. CASE MergeFails
  <2>1. \A p \in s.cargo : at'[p] # Detached
    BY <1>22, <1>00 DEF MergeFails, MergePossible, MovePanes, ScreenOK
  <2>. QED
    BY <1>22, <2>1 DEF MergeFails
<1>23. CASE CleanupFocus
  BY <1>23 DEF CleanupFocus, Goto
<1>24. CASE CleanupClose
  <2>1. Awaited /\ UNCHANGED <<s, expected>> /\ pc' = "idle"
    BY <1>24 DEF CleanupClose, Finish, LoggedError
  <2>2. UNCHANGED at \/ Removed(s.source)
    BY <1>24 DEF CleanupClose, ClosedAfterMerge
  <2>. QED
    BY <1>00, <2>1, <2>2 DEF Removed
<1>25. CASE Snapshot
  BY <1>25 DEF Snapshot, wmVars
<1>26. CASE MoveOut
  <2>1. PICK p \in PanesIn(s.source) :
            /\ s' = [s EXCEPT !.cargo = {p}]
            /\ pc' = "spawn" \/ p \in expected'
    BY <1>26 DEF MoveOut
  <2>2. s'.cargo = {p} /\ pc' \in {"spawn", "poll"}
    BY <1>26, <2>1 DEF MoveOut, Session
  <2>. QED
    BY <2>1, <2>2
<1>27. CASE MoveOutFails
  <2>1. Relocated(TRUE) \in History /\ h \in History
    BY <1>27, CountedTally DEF MoveOutFails, Balanced, Pending
  <2>2. h'.result = "appErr" /\ pc' = "idle"
    BY <1>27, <2>1 DEF MoveOutFails, Finish, History
  <2>. QED
    BY <2>2
<1>28. CASE Spawn
  <2>1. CASE Finish(h, "wmErr")
    BY <2>1 DEF Finish, History
  <2>2. CASE Goto("poll") /\ expected' = expected \cup s.cargo
    BY <1>28, <2>2 DEF Spawn, Goto
  <2>. QED
    BY <1>28, <2>1, <2>2 DEF Spawn
<1>29. CASE Poll
  BY <1>29 DEF Poll, Goto, wmVars, Session
<1>30. CASE PollsDone
  BY <1>30 DEF PollsDone, Goto, wmVars, Session
<1>31. CASE FocusNew
  BY <1>31 DEF FocusNew, Goto
<1>32. CASE PlaceFocus
  BY <1>32 DEF PlaceFocus, Goto, Finish
<1>33. CASE PlaceRead
  BY <1>33 DEF PlaceRead, Goto, Finish, wmVars
<1>34. CASE Place
  BY <1>34 DEF Place, Finish, wmVars
<1>35. CASE RouteRead
  BY <1>35 DEF RouteRead, Goto, Finish, StartProbe, wmVars, Session
<1>36. CASE Transfer
  <2>1. pc' \in {"idle", "wmMove"} /\ pc = "transfer" /\ UNCHANGED <<s, expected>>
    BY <1>36 DEF Transfer, TransferDone, Finish, Goto
  <2>2. \A p \in s.cargo : at'[p] # Detached
    BY <1>36, <1>00 DEF Transfer, MovePanes, ScreenOK
  <2>. QED
    BY <2>1, <2>2
<1>37. CASE WmMove
  BY <1>37 DEF WmMove, Finish, wmVars
<1>38. CASE UserFocuses
  BY <1>38, <1>0 DEF UserFocuses, Environment
<1>39. CASE UserCloses
  BY <1>39, <1>0 DEF UserCloses, Environment
<1>40. CASE StrangerAppears
  BY <1>40, <1>0 DEF StrangerAppears, Environment
<1>41. CASE WindowAppears
  BY <1>41, <1>0 DEF WindowAppears, Environment
<1>42. CASE EmptyVanishes
  BY <1>42, <1>0 DEF EmptyVanishes, Environment
<1>43. CASE UNCHANGED vars
  BY <1>43 DEF vars
<1>. QED
  BY <1>1, <1>2, <1>3, <1>4, <1>5, <1>6, <1>7, <1>8, <1>9, <1>10, <1>11, <1>12, <1>13, <1>14, <1>15,
     <1>16, <1>17, <1>18, <1>19, <1>20, <1>21, <1>22, <1>23, <1>24, <1>25, <1>26, <1>27, <1>28,
     <1>29, <1>30, <1>31, <1>32, <1>33, <1>34, <1>35, <1>36, <1>37, <1>38, <1>39, <1>40, <1>41,
     <1>42, <1>43 DEF Next, Request, Environment

\* A request that reports success leaves no pane without a window to come
\* (execute_app_tear_out: spawn's error is passed on).
THEOREM NothingIsStranded == Spec => []NothingStranded
<1>. DEFINE Inv == IInv /\ Balanced /\ Places /\ Torn /\ NoneStranded
<1>1. Init => Inv
  <2>. SUFFICES ASSUME Init PROVE Inv
    OBVIOUS
  <2>1. CInv
    BY CInvInit
  <2>2. NoneStranded
    BY DEF Init, NoneStranded, Undecided, Acted, Fresh
  <2>. QED
    BY <2>1, <2>2 DEF CInv
<1>2. Inv /\ [Next]_vars => Inv'
  <2>. SUFFICES ASSUME Inv, [Next]_vars PROVE Inv'
    OBVIOUS
  <2>1. TypeOK /\ IInv'
    BY IInvStep DEF IInv
  <2>. QED
    BY <2>1, TallyStep, PlacesStep, TornStep, StrandedStep
<1>3. Inv => NothingStranded
  BY DEF NoneStranded, Awaited, NothingStranded
<1>. QED
  BY <1>1, <1>2, <1>3, PTL DEF Spec

----------------------------------------------------------------------------
(* The focus comes back                                                    *)

\* Fields of the history that the steps leave alone.
Like(f, g) ==
  /\ f \in History /\ f.origin = g.origin /\ f.shifted = g.shifted /\ f.by = g.by
  /\ f.disturbed = g.disturbed /\ f.snapOk = g.snapOk

\* An effect leaves them alone ...
LEMMA LikeCounted ==
  ASSUME h \in History
  PROVE  /\ Like(Counted(FALSE), h) /\ Like(Counted(TRUE), h)
         /\ Like(Relocated(FALSE), h) /\ Like(Relocated(TRUE), h)
<1>1. h.relocations + 1 \in Nat /\ h.late \in Nat /\ h.late + 1 \in Nat
  BY DEF History
<1>2. \A n, l \in Nat : Like([h EXCEPT !.relocations = n, !.late = l], h)
  BY DEF History, Like
<1>3. Like(Counted(FALSE), h) /\ Like(Counted(TRUE), h)
  BY <1>1, <1>2 DEF Counted
<1>4. \A g \in History, b \in BOOLEAN : Like([g EXCEPT !.stray = b], g)
  BY DEF History, Like
<1>5. \A late \in BOOLEAN : (Counted(late).stray \/ Displaced) \in BOOLEAN
  OBVIOUS
<1>. QED
  BY <1>3, <1>4, <1>5 DEF Relocated, Like

\* ... a disturbance all but itself ...
LEMMA LikeDisturbed ==
  ASSUME NEW g \in History, NEW b \in BOOLEAN
  PROVE  LET f == Disturbed(g, b)
         IN  /\ f \in History /\ f.origin = g.origin /\ f.shifted = g.shifted /\ f.by = g.by
             /\ f.snapOk = g.snapOk /\ (~f.disturbed => ~g.disturbed /\ ~b)
             /\ f.result = g.result
<1>1. \A c \in BOOLEAN :
        LET f == [g EXCEPT !.disturbed = c]
        IN  /\ f \in History /\ f.origin = g.origin /\ f.shifted = g.shifted /\ f.by = g.by
            /\ f.snapOk = g.snapOk /\ f.disturbed = c /\ f.result = g.result
  BY DEF History
<1>2. (g.disturbed \/ b) \in BOOLEAN
  OBVIOUS
<1>. QED
  BY <1>1, <1>2 DEF Disturbed

\* ... and a report too.
LEMMA LikeFinished ==
  ASSUME NEW g \in History, NEW r \in {"ok", "appErr", "wmErr"}, Finish(g, r)
  PROVE  Like(h', g) /\ h'.result = r /\ pc' = "idle"
  BY DEF Finish, History, Like

\* Steps with the focus on the source unless something was disturbed.
AtHome == (Undecided \ {"probeRead", "probeRestore", "probeMatch", "merge", "refocus"}) \cup {"spawn"}

\* A probe leaves the focus on its target only for a merge that wants it there.
KeepRight ==
  /\ pc \in Probing /\ probe.keep => probe.caller = "merge" /\ Profile[App].targetFocused
  /\ pc \in Probing /\ probe.caller = "merge" /\ Profile[App].targetFocused => probe.keep
  /\ pc \in {"inPlace", "inPlaceRead", "mergeInPlace"} => Profile[App].targetFocused
FocusRight ==
  /\ pc # "idle" => h.shifted = NoWindow /\ h.by = "none"
  /\ pc # "idle" /\ ~h.disturbed =>
       /\ s.source = h.origin /\ s.source \in windows
       /\ pc \in AtHome => focus = s.source
       /\ pc = "probeMatch" /\ ~probe.keep => focus = s.source
       /\ pc = "merge" /\ ~Profile[App].targetFocused => focus = s.source

\* What FocusComesBack says of a step.
ComesBack ==
  pc # "idle" /\ pc' = "idle" /\ ~h'.disturbed
    /\ (h'.by = "fallback" \/ h'.result \in {"appErr", "wmErr"}) =>
  focus' = h.origin /\ h'.shifted \in {NoWindow, h.origin}

\* Every step keeps the rule of the probes.
LEMMA KeepStep ==
  ASSUME TypeOK, KeepRight, [Next]_vars
  PROVE  KeepRight'
<1>. USE DEF TypeOK, ControlOK, PcValues, Probing, KeepRight, App
<1>0. ASSUME Environment PROVE UNCHANGED <<pc, s, probe>>
  BY <1>0 DEF Environment, UserFocuses, UserCloses, StrangerAppears, WindowAppears, EmptyVanishes
<1>1. CASE Begin
  BY <1>1 DEF Begin
<1>2. CASE BeginFails
  BY <1>2 DEF BeginFails
<1>3. CASE ChainExhausted
  BY <1>3 DEF ChainExhausted, Goto
<1>4. CASE LayerDecides
  BY <1>4 DEF LayerDecides, Goto, Finish
<1>5. CASE LayerFails
  BY <1>5 DEF LayerFails, Finish
<1>6. CASE Unmerged
  BY <1>6 DEF Unmerged, Goto, StartProbe, NextLayer
<1>7. CASE ProbeFocus
  BY <1>7, CallerType DEF ProbeFocus, Goto, ProbeNone
<1>8. CASE ProbeRead
  BY <1>8, CallerType DEF ProbeRead, Goto, ProbeNone, Session
<1>9. CASE ProbeReadFails
  BY <1>9 DEF ProbeReadFails, Finish
<1>10. CASE ProbeRestore
  BY <1>10 DEF ProbeRestore, Goto, Finish
<1>11. CASE ProbeMatch
  BY <1>11, CallerType DEF ProbeMatch, Goto, ProbeNone, NextLayer
<1>12. CASE Refocus
  BY <1>12 DEF Refocus
<1>13. CASE PrepareMerge
  <2>1. s'.source = s.source /\ s'.layer = s.layer
    BY <1>13 DEF PrepareMerge, Session
  <2>2. \/ pc' = "inPlace" /\ Profile[App].targetFocused
        \/ pc' = "probe" /\ ~Profile[App].targetFocused /\ probe' = [keep |-> FALSE, adapter |-> App, caller |-> "merge"]
        \/ pc' = "unmerged"
    BY <1>13 DEF PrepareMerge, StartProbe, Goto
  <2>. QED
    BY <2>1, <2>2
<1>14. CASE InPlaceFocus
  BY <1>14 DEF InPlaceFocus, Goto, StartProbe, Session
<1>15. CASE InPlaceFocusFails
  BY <1>15 DEF InPlaceFocusFails, Finish
<1>16. CASE InPlaceRead
  BY <1>16 DEF InPlaceRead, Goto, Session
<1>17. CASE InPlaceLeftWindow
  BY <1>17 DEF InPlaceLeftWindow, Session
<1>18. CASE InPlaceReadFails
  BY <1>18 DEF InPlaceReadFails, Finish
<1>19. CASE MergeInPlace
  BY <1>19 DEF MergeInPlace, Finish
<1>20. CASE MergeInPlaceFails
  BY <1>20 DEF MergeInPlaceFails
<1>21. CASE Merge
  BY <1>21 DEF Merge
<1>22. CASE MergeFails
  BY <1>22 DEF MergeFails
<1>23. CASE CleanupFocus
  BY <1>23 DEF CleanupFocus, Goto
<1>24. CASE CleanupClose
  BY <1>24 DEF CleanupClose, Finish
<1>25. CASE Snapshot
  BY <1>25 DEF Snapshot
<1>26. CASE MoveOut
  BY <1>26 DEF MoveOut
<1>27. CASE MoveOutFails
  BY <1>27 DEF MoveOutFails, Finish
<1>28. CASE Spawn
  BY <1>28 DEF Spawn, Goto, Finish
<1>29. CASE Poll
  BY <1>29 DEF Poll, Goto
<1>30. CASE PollsDone
  BY <1>30 DEF PollsDone, Goto
<1>31. CASE FocusNew
  BY <1>31 DEF FocusNew, Goto
<1>32. CASE PlaceFocus
  BY <1>32 DEF PlaceFocus, Goto, Finish
<1>33. CASE PlaceRead
  BY <1>33 DEF PlaceRead, Goto, Finish
<1>34. CASE Place
  BY <1>34 DEF Place, Finish
<1>35. CASE RouteRead
  BY <1>35 DEF RouteRead, Goto, Finish, StartProbe
<1>36. CASE Transfer
  <2>1. pc' \in {"idle", "wmMove"}
    BY <1>36 DEF Transfer, TransferDone, Finish, Goto
  <2>. QED
    BY <2>1
<1>37. CASE WmMove
  BY <1>37 DEF WmMove, Finish
<1>38. CASE UserFocuses
  BY <1>38, <1>0 DEF UserFocuses, Environment
<1>39. CASE UserCloses
  BY <1>39, <1>0 DEF UserCloses, Environment
<1>40. CASE StrangerAppears
  BY <1>40, <1>0 DEF StrangerAppears, Environment
<1>41. CASE WindowAppears
  BY <1>41, <1>0 DEF WindowAppears, Environment
<1>42. CASE EmptyVanishes
  BY <1>42, <1>0 DEF EmptyVanishes, Environment
<1>43. CASE UNCHANGED vars
  BY <1>43 DEF vars
<1>. QED
  BY <1>1, <1>2, <1>3, <1>4, <1>5, <1>6, <1>7, <1>8, <1>9, <1>10, <1>11, <1>12, <1>13, <1>14, <1>15,
     <1>16, <1>17, <1>18, <1>19, <1>20, <1>21, <1>22, <1>23, <1>24, <1>25, <1>26, <1>27, <1>28,
     <1>29, <1>30, <1>31, <1>32, <1>33, <1>34, <1>35, <1>36, <1>37, <1>38, <1>39, <1>40, <1>41,
     <1>42, <1>43 DEF Next, Request, Environment

\* What others do, without a trace in the history, concerns neither the focus
\* nor the source.
LEMMA EnvironmentFocus ==
  ASSUME TypeOK, Places, NoneStranded, Torn, FocusRight, Environment
  PROVE  FocusRight' /\ ComesBack
<1>. USE DEF TypeOK, ScreenOK, ControlOK
<1>1. UNCHANGED <<pc, s, probe>>
  BY DEF Environment, UserFocuses, UserCloses, StrangerAppears, WindowAppears, EmptyVanishes
<1>2. CASE pc = "idle"
  BY <1>1, <1>2 DEF FocusRight, ComesBack
<1>3. CASE pc # "idle" /\ Disturb
  <2>1. h' = Disturbed(h, TRUE)
    BY <1>3 DEF Disturb
  <2>2. h'.disturbed /\ h'.shifted = h.shifted /\ h'.by = h.by
    BY <2>1, LikeDisturbed
  <2>. QED
    BY <1>1, <1>3, <2>2 DEF FocusRight, ComesBack
<1>4. CASE pc # "idle" /\ UNCHANGED h /\ WindowAppears
  <2>1. PICK p \in expected : p \in s.cargo \/ Disturb
    BY <1>4 DEF WindowAppears
  <2>2. CASE Disturb
    BY <1>3, <1>4, <2>2
  <2>3. CASE p \in s.cargo
    <3>1. at[p] = Detached
      BY DEF Places
    <3>2. pc \notin Undecided /\ pc # "spawn"
      BY <2>3, <3>1 DEF NoneStranded, Torn
    <3>3. windows \subseteq windows'
      BY <1>4 DEF WindowAppears
    <3>. QED
      BY <1>1, <1>4, <3>2, <3>3 DEF FocusRight, ComesBack, AtHome, Undecided, Acted, PcValues
  <2>. QED
    BY <2>1, <2>2, <2>3
<1>5. CASE pc # "idle" /\ UNCHANGED h /\ EmptyVanishes
  <2>1. PICK w \in windows : Removed(w) /\ (w \in {focus, s.source, s.target} => Disturb)
    BY <1>5 DEF EmptyVanishes
  <2>2. CASE Disturb
    BY <1>3, <1>5, <2>2
  <2>3. CASE w \notin {focus, s.source}
    <3>1. UNCHANGED focus /\ windows' = windows \ {w}
      BY <2>1, <2>3 DEF Removed
    <3>. QED
      BY <1>1, <1>5, <2>3, <3>1 DEF FocusRight, ComesBack, App
  <2>. QED
    BY <2>1, <2>2, <2>3
<1>. QED
  BY <1>2, <1>3, <1>4, <1>5 DEF Environment, UserFocuses, UserCloses, StrangerAppears,
     WindowAppears, EmptyVanishes

\* Every step brings the focus back.
LEMMA FocusStep ==
  ASSUME TypeOK, Places, NoneStranded, Torn, KeepRight, FocusRight, [Next]_vars
  PROVE  FocusRight' /\ ComesBack
<1>. USE DEF TypeOK, ControlOK, PcValues, Probing, FocusRight, ComesBack, AtHome, Undecided, Acted, App
<1>1. CASE Begin
  BY <1>1 DEF Begin, Fresh, NoSession, wmVars, Places, ScreenOK
<1>2. CASE BeginFails
  BY <1>2 DEF BeginFails, wmVars
<1>3. CASE ChainExhausted
  BY <1>3 DEF ChainExhausted, Goto, wmVars
<1>4. CASE LayerDecides
  BY <1>4, LikeCounted, LikeFinished DEF LayerDecides, Goto, wmVars, Like
<1>5. CASE LayerFails
  BY <1>5, LikeCounted, LikeFinished DEF LayerFails, wmVars, Like
<1>6. CASE Unmerged
  BY <1>6 DEF Unmerged, Goto, StartProbe, NextLayer, wmVars, Session
<1>7. CASE ProbeFocus
  BY <1>7, CallerType DEF ProbeFocus, Goto, ProbeNone
<1>8. CASE ProbeRead
  BY <1>8, CallerType DEF ProbeRead, Goto, ProbeNone, wmVars, Session, RestoresSource
<1>9. CASE ProbeReadFails
  <2>1. (focus' # s.source) \in BOOLEAN
    OBVIOUS
  <2>2. PICK g \in History : /\ Finish(g, "wmErr") /\ g.shifted = h.shifted
                           /\ (~g.disturbed => ~h.disturbed /\ focus' = s.source)
    BY <1>9, <2>1, LikeDisturbed DEF ProbeReadFails
  <2>3. pc = "probeRead" /\ pc' = "idle" /\ h'.shifted = h.shifted /\ h'.disturbed = g.disturbed
    BY <1>9, <2>2, LikeFinished DEF ProbeReadFails, Like
  <2>. QED
    BY <2>2, <2>3
<1>10. CASE ProbeRestore
  <2>1. pc = "probeRestore" /\ UNCHANGED <<windows, s, probe>>
    BY <1>10 DEF ProbeRestore
  <2>2. CASE FocusCall(s.source, TRUE) /\ Goto("probeMatch")
    BY <2>1, <2>2 DEF FocusCall, Goto
  <2>3. CASE Finish(Disturbed(h, TRUE), "wmErr")
    BY <2>1, <2>3, LikeDisturbed, LikeFinished DEF Like
  <2>. QED
    BY <1>10, <2>2, <2>3 DEF ProbeRestore
<1>11. CASE ProbeMatch
  <2>1. UNCHANGED <<windows, focus, h, probe>> /\ s'.source = s.source /\ pc = "probeMatch"
    BY <1>11 DEF ProbeMatch, wmVars, NextLayer, Goto, Session
  <2>2. pc' = "merge" => probe.caller = "merge" /\ UNCHANGED s
    BY <1>11, CallerType DEF ProbeMatch, NextLayer, Goto, ProbeNone
  <2>3. pc' \in {"merge", "layer", "transfer", "refocus", "unmerged", "snapshot", "wmMove"}
    BY <1>11, CallerType DEF ProbeMatch, NextLayer, Goto, ProbeNone
  <2>4. pc' \in {"merge", "refocus"} \/ ~probe.keep
    BY <1>11, CallerType DEF ProbeMatch, NextLayer, Goto, ProbeNone, KeepRight
  <2>5. pc' = "merge" /\ ~Profile[App].targetFocused => ~probe.keep
    BY <2>1 DEF KeepRight
  <2>. QED
    BY <2>1, <2>2, <2>3, <2>4, <2>5
<1>12. CASE Refocus
  <2>1. (focus' # s.source) \in BOOLEAN
    OBVIOUS
  <2>2. h'.shifted = h.shifted /\ h'.by = h.by /\ h'.origin = h.origin /\ (~h'.disturbed => ~h.disturbed /\ focus' = s.source)
    BY <1>12, <2>1, LikeDisturbed DEF Refocus
  <2>. QED
    BY <1>12, <2>2 DEF Refocus
<1>13. CASE PrepareMerge
  BY <1>13 DEF PrepareMerge, Goto, StartProbe, wmVars, Session
<1>14. CASE InPlaceFocus
  BY <1>14 DEF InPlaceFocus, Goto, StartProbe, wmVars, Session
<1>15. CASE InPlaceFocusFails
  BY <1>15, LikeFinished DEF InPlaceFocusFails, wmVars, Like
<1>16. CASE InPlaceRead
  <2>1. h'.shifted = h.shifted /\ h'.by = h.by /\ h'.origin = h.origin /\ (~h'.disturbed => ~h.disturbed)
    <3>1. h' = h \/ h' = Disturbed(h, TRUE)
      BY <1>16 DEF InPlaceRead, Goto
    <3>2. CASE h' = h
      BY <3>2
    <3>3. CASE h' = Disturbed(h, TRUE)
      BY <3>3, LikeDisturbed
    <3>. QED
      BY <3>1, <3>2, <3>3
  <2>2. s'.source = s.source /\ pc' \in {"mergeInPlace", "inPlace"} /\ UNCHANGED <<windows, focus>> /\ pc = "inPlaceRead"
    BY <1>16 DEF InPlaceRead, Goto, wmVars, Session
  <2>. QED
    BY <2>1, <2>2
<1>17. CASE InPlaceLeftWindow
  <2>1. (focus' # s.source) \in BOOLEAN
    OBVIOUS
  <2>2. h'.shifted = h.shifted /\ h'.by = h.by /\ h'.origin = h.origin /\ (~h'.disturbed => ~h.disturbed /\ focus' = s.source)
    BY <1>17, <2>1, LikeDisturbed DEF InPlaceLeftWindow
  <2>. QED
    BY <1>17, <2>2 DEF InPlaceLeftWindow, Session
<1>18. CASE InPlaceReadFails
  BY <1>18, LikeFinished DEF InPlaceReadFails, wmVars, Like
<1>19. CASE MergeInPlace
  BY <1>19, LikeCounted, LikeFinished DEF MergeInPlace, wmVars, Like
<1>20. CASE MergeInPlaceFails
  <2>1. PICK hist \in {h, Counted(TRUE)}, restored \in BOOLEAN : h' = Disturbed(hist, ~restored)
    BY <1>20 DEF MergeInPlaceFails
  <2>2. Like(hist, h) /\ (~restored) \in BOOLEAN
    BY LikeCounted DEF Like
  <2>3. h'.shifted = h.shifted /\ h'.by = h.by /\ h'.origin = h.origin /\ (~h'.disturbed => ~h.disturbed)
    BY <2>1, <2>2, LikeDisturbed DEF Like
  <2>. QED
    BY <1>20, <2>3 DEF MergeInPlaceFails, wmVars
<1>21. CASE Merge
  BY <1>21, LikeCounted DEF Merge, Like
<1>22. CASE MergeFails
  BY <1>22, LikeCounted DEF MergeFails, Like
<1>23. CASE CleanupFocus
  BY <1>23 DEF CleanupFocus, Goto
<1>24. CASE CleanupClose
  <2>1. h'.by = h.by /\ h'.result = "ok" /\ pc' = "idle" /\ pc = "cleanupClose"
    BY <1>24, LikeFinished DEF CleanupClose, LoggedError, Like
  <2>. QED
    BY <2>1
<1>25. CASE Snapshot
  BY <1>25 DEF Snapshot, wmVars, History
<1>26. CASE MoveOut
  BY <1>26, LikeCounted DEF MoveOut, Like, Session
<1>27. CASE MoveOutFails
  BY <1>27, LikeCounted, LikeFinished DEF MoveOutFails, Like
<1>28. CASE Spawn
  BY <1>28, LikeFinished DEF Spawn, Goto, Like
<1>29. CASE Poll
  BY <1>29 DEF Poll, Goto, wmVars, Session
<1>30. CASE PollsDone
  BY <1>30 DEF PollsDone, Goto, wmVars, Session
<1>31. CASE FocusNew
  BY <1>31 DEF FocusNew, Goto
<1>32. CASE PlaceFocus
  BY <1>32, LikeFinished DEF PlaceFocus, Goto, Like, LoggedError
<1>33. CASE PlaceRead
  BY <1>33, LikeFinished DEF PlaceRead, Goto, Like, LoggedError, wmVars
<1>34. CASE Place
  <2>1. Shifted("placement") \in History /\ Shifted("placement").by = "placement" /\ Shifted("placement").shifted = focus /\ Shifted("placement").disturbed = h.disturbed
    BY DEF Shifted, History, ScreenOK
  <2>. QED
    BY <1>34, <2>1, LikeFinished DEF Place, wmVars, Like, LoggedError
<1>35. CASE RouteRead
  <2>1. CASE Finish(h, "wmErr")
    BY <1>35, <2>1, LikeFinished DEF RouteRead, wmVars, Like
  <2>2. CASE s' = [s EXCEPT !.source = focus] /\ StartProbe(FALSE, NoAdapter, "route")
    BY <1>35, <2>2 DEF RouteRead, StartProbe, Goto, wmVars, Session
  <2>. QED
    BY <1>35, <2>1, <2>2 DEF RouteRead
<1>36. CASE Transfer
  BY <1>36, LikeCounted, LikeFinished DEF Transfer, Like, TransferDone, Goto
<1>37. CASE WmMove
  <2>1. Shifted("fallback") \in History /\ Shifted("fallback").by = "fallback" /\ Shifted("fallback").shifted = focus /\ Shifted("fallback").disturbed = h.disturbed
    BY DEF Shifted, History, ScreenOK
  <2>. QED
    BY <1>37, <2>1, LikeFinished DEF WmMove, wmVars, Like, LoggedError
<1>38. CASE UserFocuses
  BY <1>38, EnvironmentFocus DEF UserFocuses, Environment
<1>39. CASE UserCloses
  BY <1>39, EnvironmentFocus DEF UserCloses, Environment
<1>40. CASE StrangerAppears
  BY <1>40, EnvironmentFocus DEF StrangerAppears, Environment
<1>41. CASE WindowAppears
  BY <1>41, EnvironmentFocus DEF WindowAppears, Environment
<1>42. CASE EmptyVanishes
  BY <1>42, EnvironmentFocus DEF EmptyVanishes, Environment
<1>43. CASE UNCHANGED vars
  BY <1>43 DEF vars
<1>. QED
  BY <1>1, <1>2, <1>3, <1>4, <1>5, <1>6, <1>7, <1>8, <1>9, <1>10, <1>11, <1>12, <1>13, <1>14, <1>15,
     <1>16, <1>17, <1>18, <1>19, <1>20, <1>21, <1>22, <1>23, <1>24, <1>25, <1>26, <1>27, <1>28,
     <1>29, <1>30, <1>31, <1>32, <1>33, <1>34, <1>35, <1>36, <1>37, <1>38, <1>39, <1>40, <1>41,
     <1>42, <1>43 DEF Next, Request, Environment

----------------------------------------------------------------------------
(* What is placed is the torn-out window                                   *)

Tearing == {"spawn", "poll", "focusNew", "placeFocus", "placeRead", "place"}
New == windows \ pre

\* Unless something was disturbed, the new windows show the pane torn out, and
\* the focus is on one of them or on the source.
TearRight ==
  /\ pre \subseteq used
  /\ ~h.disturbed /\ h.snapOk =>
       /\ pc = "moveOut" => windows \subseteq pre
       /\ pc \in Tearing =>
            /\ \E p \in Pane : s.cargo = {p} /\ \A w \in New : at[p] = w
            /\ s.source \in pre
            /\ focus \in New \cup {s.source}
       /\ pc \in {"focusNew", "placeFocus"} => s.target \in New
       /\ pc = "place" => focus \in New

\* What PlacesTornOutWindow says of a step.
PlacesIt ==
  h'.by = "placement" /\ h.by # "placement" /\ h'.snapOk /\ ~h'.disturbed =>
    h'.shifted \notin pre /\ \A p \in s.cargo : at[p] = h'.shifted

\* The smallest of the best is one of the new ones (select_tearout_window_id).
LEMMA SelectsNew ==
  ASSUME windows \subseteq Nat, focus \in New \cup {s.source}, NEW x, New \subseteq {x},
         SelectTearOut(pre, windows, focus, s.source) \in windows \ {s.source}, NoWindow \notin windows
  PROVE  SelectTearOut(pre, windows, focus, s.source) \in New
<1>1. CASE New = {}
  <2>1. windows \ pre = {} /\ focus = s.source
    BY <1>1 DEF New
  <2>2. SelectTearOut(pre, windows, focus, s.source) = NoWindow
    BY <2>1 DEF SelectTearOut
  <2>. QED
    BY <2>2
<1>2. CASE New = {x}
  <2>1. windows \ pre = {x} /\ x \in Nat
    BY <1>2 DEF New
  <2>2. MinOf({x}) = x
    <3>1. \A w \in {x} : w <= w
      BY <2>1
    <3>. QED
      BY <3>1 DEF MinOf
  <2>3. SelectTearOut(pre, windows, focus, s.source) = MinOf({x})
    <3>. DEFINE samePid == {w \in {x} : Pid[w] = Pid[s.source]}
                sameApp == {w \in {x} : AppId[w] = AppId[s.source]}
                best == IF samePid \cap sameApp # {} THEN samePid \cap sameApp
                        ELSE IF samePid # {} THEN samePid
                        ELSE IF sameApp # {} THEN sameApp
                        ELSE IF focus \in {x} THEN {focus} ELSE {x}
    <3>1. best = {x}
      BY Zenon
    <3>2. SelectTearOut(pre, windows, focus, s.source) = MinOf(best)
      BY <2>1 DEF SelectTearOut
    <3>. QED
      BY <3>1, <3>2
  <2>. QED
    BY <1>2, <2>2, <2>3
<1>. QED
  BY <1>1, <1>2

\* What others do without a trace in the history is to show the pane torn out.
LEMMA EnvironmentTears ==
  ASSUME TypeOK, Places, Torn, NoneStranded, FocusRight, TearRight, Environment
  PROVE  TearRight'
<1>. USE DEF TypeOK, ScreenOK, ControlOK
<1>1. UNCHANGED <<pc, s, pre>> /\ s.cargo \subseteq Pane /\ used \subseteq used'
  BY DEF Environment, UserFocuses, UserCloses, StrangerAppears, WindowAppears, EmptyVanishes,
     Session
<1>2. CASE pc = "idle"
  BY <1>1, <1>2 DEF TearRight, Tearing
<1>3. CASE pc # "idle" /\ Disturb
  <2>1. h'.disturbed
    BY <1>3, LikeDisturbed DEF Disturb
  <2>. QED
    BY <1>1, <2>1 DEF TearRight
<1>4. CASE pc # "idle" /\ UNCHANGED h /\ WindowAppears
  <2>1. PICK p \in expected, v \in Window \ used :
          /\ windows' = windows \cup {v} /\ focus' \in {focus, v}
          /\ at' = [at EXCEPT ![p] = v] /\ (p \in s.cargo \/ Disturb)
    BY <1>4 DEF WindowAppears
  <2>2. CASE Disturb
    BY <1>3, <1>4, <2>2
  <2>3. CASE p \in s.cargo
    <3>1. at[p] = Detached /\ Detached \notin Window /\ p \in Pane
      BY ConstantsAssumption DEF Places, Detached
    <3>2. pc \notin Undecided
      BY <2>3, <3>1 DEF NoneStranded
    <3>3. ASSUME ~h.disturbed, h.snapOk, pc \in Tearing
          PROVE  New = {} /\ s.cargo = {p}
      <4>1. PICK q \in Pane : s.cargo = {q} /\ \A w \in New : at[q] = w
        BY <3>3 DEF TearRight
      <4>2. q = p
        BY <2>3, <4>1
      <4>. QED
        BY <3>1, <4>1, <4>2 DEF New
    <3>4. ASSUME ~h.disturbed, h.snapOk, pc \in Tearing
          PROVE  New' = {v} /\ at'[p] = v /\ focus' \in New' \cup {s.source} /\ pc \notin {"focusNew", "placeFocus", "place"}
      <4>1. focus = s.source
        BY <3>3, <3>4 DEF TearRight
      <4>2. New' = {v}
        BY <1>1, <2>1, <3>3, <3>4 DEF New, TearRight
      <4>. QED
        BY <2>1, <3>1, <3>3, <3>4, <4>1, <4>2 DEF TearRight
    <3>5. pc # "moveOut"
      BY <3>2 DEF Undecided, Acted, PcValues
    <3>6. pc \in {"focusNew", "placeFocus", "place"} => pc \in Tearing
      BY DEF Tearing
    <3>. QED
      BY <1>1, <1>4, <3>1, <3>3, <3>4, <3>5, <3>6 DEF TearRight
  <2>. QED
    BY <2>1, <2>2, <2>3
<1>5. CASE pc # "idle" /\ UNCHANGED h /\ EmptyVanishes
  <2>1. PICK w \in windows : PanesIn(w) = {} /\ Removed(w) /\ (w \in {focus, s.source, s.target} => Disturb)
    BY <1>5 DEF EmptyVanishes
  <2>2. CASE Disturb
    BY <1>3, <1>5, <2>2
  <2>3. CASE w # focus /\ w # s.target
    <3>1. UNCHANGED <<focus, at>> /\ windows' = windows \ {w}
      <4>1. \A p \in Pane : at[p] # w
        BY <2>1 DEF PanesIn
      <4>. QED
        BY <2>1, <2>3, <4>1 DEF Removed
    <3>. QED
      BY <1>1, <1>5, <2>3, <3>1 DEF TearRight, New
  <2>. QED
    BY <2>1, <2>2, <2>3
<1>. QED
  BY <1>2, <1>3, <1>4, <1>5 DEF Environment, UserFocuses, UserCloses, StrangerAppears,
     WindowAppears, EmptyVanishes

\* Every step of a tear-out keeps to the window that shows its pane.
LEMMA TearStep ==
  ASSUME TypeOK, Places, Torn, NoneStranded, FocusRight, FocusRight', TearRight, [Next]_vars
  PROVE  TearRight' /\ PlacesIt
<1>. USE DEF TypeOK, ScreenOK, ControlOK, PcValues, TearRight, PlacesIt, Tearing
<1>1. CASE Begin
  BY <1>1 DEF Begin, Fresh, wmVars
<1>2. CASE BeginFails
  BY <1>2 DEF BeginFails, Fresh, wmVars, History
<1>3. CASE ChainExhausted
  BY <1>3 DEF ChainExhausted, Goto, wmVars, FocusRight
<1>4. CASE LayerDecides
  BY <1>4, LikeCounted, LikeFinished DEF LayerDecides, Goto, Like, wmVars, FocusRight
<1>5. CASE LayerFails
  BY <1>5, LikeCounted, LikeFinished DEF LayerFails, Like, wmVars, FocusRight
<1>6. CASE Unmerged
  BY <1>6 DEF Unmerged, Goto, StartProbe, NextLayer, wmVars, FocusRight
<1>7. CASE ProbeFocus
  BY <1>7, CallerType DEF ProbeFocus, Goto, ProbeNone, FocusRight
<1>8. CASE ProbeRead
  BY <1>8, CallerType DEF ProbeRead, Goto, ProbeNone, wmVars, FocusRight
<1>9. CASE ProbeReadFails
  <2>1. (focus' # s.source) \in BOOLEAN
    OBVIOUS
  <2>2. h'.by = h.by
    <3>1. Disturbed(h, focus' # s.source) \in History /\ Disturbed(h, focus' # s.source).by = h.by
      BY <2>1, LikeDisturbed
    <3>2. Finish(Disturbed(h, focus' # s.source), "wmErr")
      BY <1>9 DEF ProbeReadFails
    <3>. QED
      BY <3>1, <3>2, LikeFinished DEF Like
  <2>. QED
    BY <1>9, <2>2 DEF ProbeReadFails, Finish
<1>10. CASE ProbeRestore
  <2>1. CASE Goto("probeMatch")
    BY <1>10, <2>1 DEF ProbeRestore, Goto
  <2>2. CASE Finish(Disturbed(h, TRUE), "wmErr")
    BY <1>10, <2>2, LikeDisturbed, LikeFinished DEF ProbeRestore, Like
  <2>. QED
    BY <1>10, <2>1, <2>2 DEF ProbeRestore
<1>11. CASE ProbeMatch
  BY <1>11, CallerType DEF ProbeMatch, Goto, NextLayer, ProbeNone, wmVars, FocusRight
<1>12. CASE Refocus
  BY <1>12 DEF Refocus, FocusRight
<1>13. CASE PrepareMerge
  BY <1>13 DEF PrepareMerge, Goto, StartProbe, wmVars, FocusRight
<1>14. CASE InPlaceFocus
  BY <1>14 DEF InPlaceFocus, Goto, StartProbe, wmVars, FocusRight
<1>15. CASE InPlaceFocusFails
  BY <1>15, LikeCounted, LikeFinished DEF InPlaceFocusFails, Like, wmVars, FocusRight
<1>16. CASE InPlaceRead
  BY <1>16 DEF InPlaceRead, Goto, wmVars, FocusRight
<1>17. CASE InPlaceLeftWindow
  BY <1>17 DEF InPlaceLeftWindow, FocusRight
<1>18. CASE InPlaceReadFails
  BY <1>18, LikeCounted, LikeFinished DEF InPlaceReadFails, Like, wmVars, FocusRight
<1>19. CASE MergeInPlace
  BY <1>19, LikeCounted, LikeFinished DEF MergeInPlace, Like, wmVars, FocusRight
<1>20. CASE MergeInPlaceFails
  BY <1>20 DEF MergeInPlaceFails, wmVars, FocusRight
<1>21. CASE Merge
  BY <1>21 DEF Merge, FocusRight
<1>22. CASE MergeFails
  BY <1>22 DEF MergeFails, FocusRight
<1>23. CASE CleanupFocus
  BY <1>23 DEF CleanupFocus, Goto, FocusRight
<1>24. CASE CleanupClose
  BY <1>24, LikeCounted, LikeFinished DEF CleanupClose, Like, LoggedError, FocusRight
<1>25. CASE Snapshot
  BY <1>25 DEF Snapshot, wmVars, History, FocusRight
<1>26. CASE MoveOut
  <2>1. PICK p \in PanesIn(s.source) : MovePanes({p}, Detached) /\ s' = [s EXCEPT !.cargo = {p}]
    BY <1>26 DEF MoveOut
  <2>2. p \in Pane /\ s'.cargo = {p} /\ s'.source = s.source
    BY <1>26, <2>1 DEF PanesIn, Session
  <2>3. /\ UNCHANGED <<windows, focus, pre, used>> /\ pc = "moveOut" /\ pc' \in {"spawn", "poll"}
        /\ h'.by = h.by /\ h'.disturbed = h.disturbed /\ h'.snapOk = h.snapOk
    BY <1>26, LikeCounted DEF MoveOut, Like
  <2>4. ASSUME ~h.disturbed, h.snapOk
        PROVE  New' = {} /\ s.source \in pre /\ focus = s.source
    BY <2>3, <2>4 DEF New, FocusRight, AtHome, Undecided, Acted
  <2>. QED
    BY <2>2, <2>3, <2>4
<1>27. CASE MoveOutFails
  BY <1>27, LikeCounted, LikeFinished DEF MoveOutFails, Like, FocusRight
<1>28. CASE Spawn
  <2>1. UNCHANGED <<windows, focus, pre, used, s, at>> /\ pc = "spawn" /\ pc' \in {"poll", "idle"}
    BY <1>28 DEF Spawn, Goto, Finish
  <2>2. h'.by = h.by /\ h'.disturbed = h.disturbed /\ h'.snapOk = h.snapOk
    BY <1>28, LikeFinished DEF Spawn, Goto, Like
  <2>. QED
    BY <2>1, <2>2 DEF New
<1>29. CASE Poll
  <2>1. UNCHANGED <<windows, focus, pre, used, at, h>> /\ s'.source = s.source /\ s'.cargo = s.cargo /\ pc = "poll"
    BY <1>29 DEF Poll, wmVars, Goto, Session
  <2>2. \/ pc' = "poll"
        \/ /\ pc' = "focusNew" /\ s'.target = SelectTearOut(pre, windows, focus, s.source)
           /\ s'.target \in windows \ {s.source}
    BY <1>29 DEF Poll, Goto, Session
  <2>3. ASSUME ~h.disturbed, h.snapOk, pc' = "focusNew" PROVE s'.target \in New
    <3>1. PICK p \in Pane : s.cargo = {p} /\ \A w \in New : at[p] = w
      BY <2>1, <2>3
    <3>2. New \subseteq {at[p]} /\ windows \subseteq Nat /\ NoWindow \notin windows /\ focus \in New \cup {s.source}
      BY <2>1, <2>3, <3>1, ConstantsAssumption DEF NoWindow
    <3>. QED
      BY <2>1, <2>2, <2>3, <3>2, SelectsNew
  <2>. QED
    BY <2>1, <2>2, <2>3 DEF New
<1>30. CASE PollsDone
  BY <1>30 DEF PollsDone, Goto, wmVars, New, Session
<1>31. CASE FocusNew
  BY <1>31 DEF FocusNew, Goto, FocusCall, New
<1>32. CASE PlaceFocus
  <2>1. UNCHANGED <<windows, pre, used, at, s>> /\ pc = "placeFocus" /\ pc' \in {"placeRead", "idle"}
    BY <1>32 DEF PlaceFocus, Goto, Finish
  <2>2. h'.by = h.by /\ h'.disturbed = h.disturbed /\ h'.snapOk = h.snapOk
    BY <1>32, LikeFinished DEF PlaceFocus, Goto, Like, LoggedError
  <2>3. focus' \in {focus, s.target}
    BY <1>32 DEF PlaceFocus, FocusCall
  <2>. QED
    BY <2>1, <2>2, <2>3 DEF New
<1>33. CASE PlaceRead
  <2>1. UNCHANGED <<windows, focus, pre, used, at, s>> /\ pc = "placeRead" /\ pc' \in {"place", "idle"}
    BY <1>33 DEF PlaceRead, Goto, Finish, wmVars
  <2>2. h'.by = h.by /\ h'.disturbed = h.disturbed /\ h'.snapOk = h.snapOk
    BY <1>33, LikeFinished DEF PlaceRead, Goto, Like, LoggedError
  <2>3. pc' = "place" => focus # s.source
    BY <1>33 DEF PlaceRead, Finish
  <2>. QED
    BY <2>1, <2>2, <2>3 DEF New
<1>34. CASE Place
  <2>1. pc = "place" /\ pc' = "idle" /\ UNCHANGED <<pre, used>>
    BY <1>34 DEF Place, Finish, wmVars
  <2>2. CASE Finish(h, LoggedError)
    BY <2>1, <2>2, LikeFinished DEF Like, LoggedError
  <2>3. CASE Finish(Shifted("placement"), "ok")
    <3>1. /\ Shifted("placement") \in History /\ Shifted("placement").shifted = focus
          /\ Shifted("placement").disturbed = h.disturbed /\ Shifted("placement").snapOk = h.snapOk
      BY DEF Shifted, History
    <3>2. h'.shifted = focus /\ h'.disturbed = h.disturbed /\ h'.snapOk = h.snapOk
      BY <2>3, <3>1, LikeFinished DEF Like
    <3>. QED
      BY <2>1, <3>2 DEF New
  <2>. QED
    BY <1>34, <2>2, <2>3 DEF Place
<1>35. CASE RouteRead
  BY <1>35, LikeFinished DEF RouteRead, Like, StartProbe, Goto, wmVars, FocusRight
<1>36. CASE Transfer
  BY <1>36, LikeCounted, LikeFinished DEF Transfer, Goto, Like, TransferDone, FocusRight
<1>37. CASE WmMove
  <2>1. Shifted("fallback") \in History /\ Shifted("fallback").by = "fallback"
    BY DEF Shifted, History
  <2>. QED
    BY <1>37, <2>1, LikeFinished DEF WmMove, wmVars, Like
<1>38. CASE UserFocuses
  <2>1. TearRight'
    BY <1>38, EnvironmentTears DEF Environment
  <2>2. h' = h \/ h' = Disturbed(h, TRUE)
    BY <1>38 DEF UserFocuses, Disturb
  <2>3. CASE h' = h
    BY <2>1, <2>3
  <2>4. CASE h' = Disturbed(h, TRUE)
    BY <2>1, <2>4, LikeDisturbed
  <2>. QED
    BY <2>2, <2>3, <2>4
<1>39. CASE UserCloses
  <2>1. TearRight'
    BY <1>39, EnvironmentTears DEF Environment
  <2>2. h' = h \/ h' = Disturbed(h, TRUE)
    BY <1>39 DEF UserCloses, Disturb
  <2>3. CASE h' = h
    BY <2>1, <2>3
  <2>4. CASE h' = Disturbed(h, TRUE)
    BY <2>1, <2>4, LikeDisturbed
  <2>. QED
    BY <2>2, <2>3, <2>4
<1>40. CASE StrangerAppears
  <2>1. TearRight'
    BY <1>40, EnvironmentTears DEF Environment
  <2>2. h' = h \/ h' = Disturbed(h, TRUE)
    BY <1>40 DEF StrangerAppears, Disturb
  <2>3. CASE h' = h
    BY <2>1, <2>3
  <2>4. CASE h' = Disturbed(h, TRUE)
    BY <2>1, <2>4, LikeDisturbed
  <2>. QED
    BY <2>2, <2>3, <2>4
<1>41. CASE WindowAppears
  <2>1. TearRight'
    BY <1>41, EnvironmentTears DEF Environment
  <2>2. h' = h \/ h' = Disturbed(h, TRUE)
    BY <1>41 DEF WindowAppears, Disturb
  <2>3. CASE h' = h
    BY <2>1, <2>3
  <2>4. CASE h' = Disturbed(h, TRUE)
    BY <2>1, <2>4, LikeDisturbed
  <2>. QED
    BY <2>2, <2>3, <2>4
<1>42. CASE EmptyVanishes
  <2>1. TearRight'
    BY <1>42, EnvironmentTears DEF Environment
  <2>2. h' = h \/ h' = Disturbed(h, TRUE)
    BY <1>42 DEF EmptyVanishes, Disturb
  <2>3. CASE h' = h
    BY <2>1, <2>3
  <2>4. CASE h' = Disturbed(h, TRUE)
    BY <2>1, <2>4, LikeDisturbed
  <2>. QED
    BY <2>2, <2>3, <2>4
<1>43. CASE UNCHANGED vars
  BY <1>43 DEF vars, New
<1>. QED
  BY <1>1, <1>2, <1>3, <1>4, <1>5, <1>6, <1>7, <1>8, <1>9, <1>10, <1>11, <1>12, <1>13, <1>14, <1>15,
     <1>16, <1>17, <1>18, <1>19, <1>20, <1>21, <1>22, <1>23, <1>24, <1>25, <1>26, <1>27, <1>28,
     <1>29, <1>30, <1>31, <1>32, <1>33, <1>34, <1>35, <1>36, <1>37, <1>38, <1>39, <1>40, <1>41,
     <1>42, <1>43 DEF Next, Request, Environment

----------------------------------------------------------------------------
(* The action properties                                                   *)

\* All that is known of a request, whatever merges.
AInv == /\ IInv /\ Balanced /\ Places /\ Torn /\ NoneStranded
        /\ KeepRight /\ FocusRight /\ TearRight

\* It holds in every reachable state.
LEMMA AInvariance == Spec => []AInv
<1>1. Init => AInv
  <2>. SUFFICES ASSUME Init PROVE AInv
    OBVIOUS
  <2>1. CInv
    BY CInvInit
  <2>. QED
    BY <2>1 DEF Init, CInv, AInv, NoneStranded, KeepRight, FocusRight, TearRight, Undecided, Acted,
                Probing, Tearing, Fresh, AtHome
<1>2. AInv /\ [Next]_vars => AInv'
  <2>. SUFFICES ASSUME AInv, [Next]_vars PROVE AInv'
    OBVIOUS
  <2>1. TypeOK /\ IInv'
    BY IInvStep DEF AInv, IInv
  <2>. QED
    BY <2>1, TallyStep, PlacesStep, TornStep, StrandedStep, KeepStep, FocusStep, TearStep DEF AInv
<1>. QED
  BY <1>1, <1>2, PTL DEF Spec

\* A request that ends undisturbed in the fallback or in an error ends with the
\* focus it began with, and the fallback moves that window (DirectionalWindowProbe,
\* the refocusing calls of merge.rs).
THEOREM FocusAlwaysComesBack == Spec => FocusComesBack
<1>1. AInv /\ [Next]_vars => [ComesBack]_vars
  BY FocusStep DEF AInv, IInv
<1>. QED
  BY <1>1, AInvariance, PTL DEF Spec, FocusComesBack, ComesBack

\* Undisturbed, place_tearout_window moves the window that shows the pane just torn
\* out, and never an older one.
THEOREM AlwaysPlacesTornOut == Spec => PlacesTornOutWindow
<1>1. AInv /\ [Next]_vars => [PlacesIt]_vars
  <2>. SUFFICES ASSUME AInv, [Next]_vars PROVE PlacesIt
    OBVIOUS
  <2>1. TypeOK /\ FocusRight'
    BY FocusStep DEF AInv, IInv
  <2>. QED
    BY <2>1, TearStep DEF AInv
<1>. QED
  BY <1>1, AInvariance, PTL DEF Spec, PlacesTornOutWindow, PlacesIt

----------------------------------------------------------------------------
(* The probe inside the window is undone                                   *)

\* Of the layers outside the innermost one at most one moves the focus among its panes.
\* With more, restore_in_place_target_focus may move another one than the probe did.
OneOuterFocuses ==
  \A w \in Window : \A j, k \in 2..Len(Chain[w]) :
    Profile[Chain[w][j]].focus /\ Profile[Chain[w][k]].focus => j = k

\* While the probe looks at a pane the layer asked is one step off, else none is.
Straight == [k \in Layer |-> 0]
Probed == {"inPlaceRead", "mergeInPlace"}
Upright ==
  /\ h.stray => h.disturbed
  /\ pc # "idle" /\ ~h.disturbed =>
       IF pc \in Probed THEN s.outer \in FocusingOuter /\ offset = [Straight EXCEPT ![s.outer] = 1]
       ELSE offset = Straight

\* The two notes of the history that InPlaceProbeIsUndone compares.
Noted(f, g) == f \in History /\ f.stray = g.stray /\ f.disturbed = g.disturbed

\* A count leaves them alone.
LEMMA NotesCounted ==
  ASSUME h \in History
  PROVE  Noted(Counted(FALSE), h) /\ Noted(Counted(TRUE), h)
<1>1. h.relocations + 1 \in Nat /\ h.late \in Nat /\ h.late + 1 \in Nat
  BY DEF History
<1>. DEFINE With(n, l) == [h EXCEPT !.relocations = n, !.late = l]
<1>2. \A n, l \in Nat : Noted(With(n, l), h)
  BY DEF History, Noted
<1>3. Counted(FALSE) = With(h.relocations + 1, h.late) /\ Counted(TRUE) = With(h.relocations + 1, h.late + 1)
  BY DEF Counted
<1>. HIDE DEF With
<1>. QED
  BY <1>1, <1>2, <1>3

\* An effect while no layer is displaced is not stray.
LEMMA NotesRelocated ==
  ASSUME h \in History, h.stray => h.disturbed, ~h.disturbed => offset = Straight, NEW late \in BOOLEAN
  PROVE  LET f == Relocated(late)
         IN  f \in History /\ (f.stray => f.disturbed) /\ f.disturbed = h.disturbed
<1>1. \A g \in History, b \in BOOLEAN : LET f == [g EXCEPT !.stray = b]
                                        IN  f \in History /\ f.stray = b /\ f.disturbed = g.disturbed
  BY DEF History
<1>2. (Counted(late).stray \/ Displaced) \in BOOLEAN
  OBVIOUS
<1>3. ~h.disturbed => ~Displaced
  BY DEF Straight, Displaced
<1>. QED
  BY <1>1, <1>2, <1>3, NotesCounted DEF Relocated, Noted

\* A disturbance is noted,
LEMMA NotesDisturbed ==
  ASSUME NEW g \in History, NEW b \in BOOLEAN
  PROVE  LET f == Disturbed(g, b)
         IN  f \in History /\ f.stray = g.stray /\ (f.disturbed <=> g.disturbed \/ b)
<1>1. \A c \in BOOLEAN : LET f == [g EXCEPT !.disturbed = c]
                         IN  f \in History /\ f.stray = g.stray /\ f.disturbed = c
  BY DEF History
<1>2. (g.disturbed \/ b) \in BOOLEAN
  OBVIOUS
<1>. QED
  BY <1>1, <1>2 DEF Disturbed

\* and a report changes neither.
LEMMA NotesFinished ==
  ASSUME NEW g \in History, NEW r \in {"ok", "appErr", "wmErr"}, Finish(g, r)
  PROVE  pc' = "idle" /\ h'.stray = g.stray /\ h'.disturbed = g.disturbed
  BY DEF Finish, History

\* A request that has ended,
LEMMA EndsUpright ==
  ASSUME pc' = "idle", h'.stray => h'.disturbed
  PROVE  Upright'
  BY DEF Upright

\* or goes on with nothing displaced.
LEMMA StaysUpright ==
  ASSUME Upright, UNCHANGED <<offset>>, pc # "idle", pc \notin Probed, pc' \notin Probed,
         h'.stray => h'.disturbed, h.disturbed => h'.disturbed
  PROVE  Upright'
  BY DEF Upright, Straight

\* Layers that can focus are layers.
LEMMA OuterIsLayer ==
  ASSUME s.source \in Window, s.layer \in LayersOf(s.source)
  PROVE  FocusingOuter \subseteq Layer /\ FocusingOuter \subseteq 2..Len(Chain[s.source])
<1>1. Len(Chain[s.source]) \in Nat /\ Len(Chain[s.source]) <= MaxLayers /\ MaxLayers \in Nat
  <2>1. Chain[s.source] \in Seq(Adapter)
    BY ConstantsAssumption
  <2>. QED
    BY <2>1, ConstantsAssumption
<1>2. s.layer \in 1..Len(Chain[s.source])
  BY DEF LayersOf
<1>. QED
  BY <1>1, <1>2 DEF FocusingOuter, LayersOf, Layer

\* The probe that found no neighbour, and the merge that failed, put the layer back.
LEMMA SteppedBack ==
  ASSUME NEW k \in Layer, offset = [Straight EXCEPT ![k] = 1]
  PROVE  FocusBack(k) = Straight
  BY DEF FocusBack, Straight

\* A merge is prepared before any layer moves.
LEMMA PrepareEffect ==
  ASSUME PrepareMerge
  PROVE  /\ pc = "prepare" /\ UNCHANGED offset
         /\ Goto("inPlace") \/ Goto("probe") \/ Goto("unmerged")
<1>1. pc = "prepare" /\ UNCHANGED offset
  BY Zenon DEF PrepareMerge
<1>2. Goto("inPlace") \/ Goto("probe") \/ Goto("unmerged")
  BY Zenon DEF PrepareMerge, StartProbe
<1>. QED
  BY <1>1, <1>2

\* Every step keeps it.
LEMMA UprightStep ==
  ASSUME OneOuterFocuses, TypeOK, SessionOK, FocusRight, Upright, [Next]_vars
  PROVE  Upright'
<1>. USE DEF TypeOK, ControlOK, PcValues
<1>1. CASE Begin
  BY <1>1 DEF Begin, Fresh, Upright, Straight, Probed
<1>2. CASE BeginFails
  BY <1>2 DEF BeginFails, Fresh, Upright
<1>3. CASE ChainExhausted
  BY <1>3, StaysUpright DEF ChainExhausted, Goto, Probed, Upright
<1>4. CASE LayerDecides
  <2>1. \/ Goto("prepare") \/ Goto("unmerged") \/ Goto("snapshot")
        \/ Finish(Relocated(FALSE), "ok")
    BY <1>4 DEF LayerDecides
  <2>2. CASE Finish(Relocated(FALSE), "ok")
    BY <1>4, <2>2, NotesRelocated, NotesFinished, EndsUpright DEF LayerDecides, Upright, Probed
  <2>. QED
    BY <1>4, <2>1, <2>2, StaysUpright DEF LayerDecides, Goto, Upright, Probed
<1>5. CASE LayerFails
  <2>1. Finish(h, "appErr") \/ Finish(Relocated(TRUE), "appErr")
    BY <1>5 DEF LayerFails
  <2>. QED
    BY <1>5, <2>1, NotesRelocated, NotesFinished, EndsUpright DEF LayerFails, Upright, Probed
<1>6. CASE Unmerged
  BY <1>6, StaysUpright DEF Unmerged, Goto, Probed, Upright, StartProbe, NextLayer
<1>7. CASE ProbeFocus
  BY <1>7, CallerType, StaysUpright DEF ProbeFocus, Goto, ProbeNone, Probed, Upright
<1>8. CASE ProbeRead
  BY <1>8, CallerType, StaysUpright DEF ProbeRead, Goto, ProbeNone, Probed, Upright
<1>9. CASE ProbeReadFails
  <2>1. (focus' # s.source) \in BOOLEAN
    OBVIOUS
  <2>. QED
    <3>1. /\ Disturbed(h, focus' # s.source) \in History
          /\ Disturbed(h, focus' # s.source).stray = h.stray
          /\ h.disturbed => Disturbed(h, focus' # s.source).disturbed
      BY <2>1, NotesDisturbed
    <3>2. Finish(Disturbed(h, focus' # s.source), "wmErr")
      BY <1>9 DEF ProbeReadFails
    <3>. QED
      BY <3>1, <3>2, NotesFinished, EndsUpright DEF Upright
<1>10. CASE ProbeRestore
  <2>1. CASE Goto("probeMatch")
    BY <1>10, <2>1, StaysUpright DEF ProbeRestore, Goto, Probed, Upright
  <2>2. CASE Finish(Disturbed(h, TRUE), "wmErr")
    BY <2>2, NotesDisturbed, NotesFinished, EndsUpright DEF Upright
  <2>. QED
    BY <1>10, <2>1, <2>2 DEF ProbeRestore
<1>11. CASE ProbeMatch
  BY <1>11, CallerType, StaysUpright DEF ProbeMatch, Goto, ProbeNone, NextLayer, Probed, Upright
<1>12. CASE Refocus
  <2>1. (focus' # s.source) \in BOOLEAN
    OBVIOUS
  <2>2. h'.stray = h.stray /\ (h.disturbed => h'.disturbed)
    BY <1>12, <2>1, NotesDisturbed DEF Refocus
  <2>. QED
    BY <1>12, <2>2, StaysUpright DEF Refocus, Probed, Upright
<1>13. CASE PrepareMerge
  BY <1>13, PrepareEffect, StaysUpright DEF Goto, Probed, Upright
<1>14. CASE InPlaceFocus
  <2>1. pc = "inPlace" /\ UNCHANGED h /\ s.source \in Window /\ s.layer \in LayersOf(s.source)
    BY <1>14 DEF InPlaceFocus, Goto, StartProbe, SessionOK
  <2>2. CASE UNCHANGED offset /\ pc' \notin Probed
    BY <2>1, <2>2, StaysUpright DEF Probed, Upright
  <2>3. CASE s.outer \in FocusingOuter /\ offset' = FocusAlong(s.outer) /\ pc' = "inPlaceRead" /\ UNCHANGED s
    <3>1. s.outer \in Layer
      BY <2>1, <2>3, OuterIsLayer
    <3>2. offset = Straight => offset' = [Straight EXCEPT ![s.outer] = 1]
      <4>1. Straight[s.outer] + 1 = 1
        BY <3>1 DEF Straight
      <4>2. offset' = [offset EXCEPT ![s.outer] = offset[s.outer] + 1]
        BY <2>3 DEF FocusAlong
      <4>. QED
        BY <4>1, <4>2, Zenon
    <3>3. FocusingOuter' = FocusingOuter
      BY <2>3 DEF FocusingOuter, LayersOf
    <3>. QED
      BY <2>1, <2>3, <3>2, <3>3 DEF Upright, Probed, Straight
  <2>. QED
    BY <1>14, <2>2, <2>3 DEF InPlaceFocus, Goto, StartProbe, Probed
<1>15. CASE InPlaceFocusFails
  BY <1>15, EndsUpright, NotesFinished DEF InPlaceFocusFails, Upright
<1>16. CASE InPlaceRead
  <2>1. pc = "inPlaceRead" /\ s.source \in Window /\ s.layer \in LayersOf(s.source)
    BY <1>16 DEF InPlaceRead, SessionOK
  <2>2. CASE Goto("mergeInPlace") /\ UNCHANGED <<s, offset>>
    BY <2>1, <2>2 DEF Goto, Upright, Probed, FocusingOuter, LayersOf, Straight
  <2>3. CASE pc' = "inPlace" /\ offset' = FocusBack(s.outer) /\ UNCHANGED h
    <3>1. ~h.disturbed => offset' = Straight
      BY <2>1, <2>3, OuterIsLayer, SteppedBack DEF Upright, Probed
    <3>. QED
      BY <2>3, <3>1 DEF Upright, Probed, Straight
  <2>4. CASE pc' = "inPlace" /\ h' = Disturbed(h, TRUE)
    BY <2>4, NotesDisturbed DEF Upright
  <2>. QED
    BY <1>16, <2>2, <2>3, <2>4 DEF InPlaceRead
<1>17. CASE InPlaceLeftWindow
  <2>1. pc = "inPlaceRead" /\ focus # s.source
    BY <1>17 DEF InPlaceLeftWindow
  <2>2. h.disturbed /\ (focus' # s.source) \in BOOLEAN
    BY <2>1 DEF FocusRight, AtHome, Undecided, Acted
  <2>. QED
    BY <1>17, <2>2, NotesDisturbed DEF InPlaceLeftWindow, Upright
<1>18. CASE InPlaceReadFails
  BY <1>18, EndsUpright, NotesFinished DEF InPlaceReadFails, Upright
<1>19. CASE MergeInPlace
  BY <1>19, NotesCounted, NotesFinished, EndsUpright DEF MergeInPlace, Upright, Noted
<1>20. CASE MergeInPlaceFails
  <2>1. /\ pc = "mergeInPlace" /\ pc' = "unmerged" /\ s.source \in Window
        /\ s.layer \in LayersOf(s.source)
    BY <1>20 DEF MergeInPlaceFails, SessionOK
  <2>2. PICK hist \in {h, Counted(TRUE)}, restored \in BOOLEAN :
          /\ h' = Disturbed(hist, ~restored)
          /\ restored => \E k \in FocusingOuter : offset' = FocusBack(k)
    BY <1>20 DEF MergeInPlaceFails
  <2>3. hist \in History /\ hist.stray = h.stray /\ hist.disturbed = h.disturbed /\ (~restored) \in BOOLEAN
    BY NotesCounted DEF Noted
  <2>4. h'.stray = h.stray /\ (~h'.disturbed => ~h.disturbed /\ restored)
    BY <2>2, <2>3, NotesDisturbed
  <2>5. ~h.disturbed /\ restored => offset' = Straight
    <3>. SUFFICES ASSUME ~h.disturbed, restored PROVE offset' = Straight
      OBVIOUS
    <3>1. PICK k \in FocusingOuter : offset' = FocusBack(k)
      BY <2>2
    <3>2. s.outer \in FocusingOuter /\ offset = [Straight EXCEPT ![s.outer] = 1]
      BY <2>1 DEF Upright, Probed
    <3>3. k = s.outer /\ k \in Layer
      BY <2>1, <3>2, OuterIsLayer DEF OneOuterFocuses, FocusingOuter
    <3>. QED
      BY <3>1, <3>2, <3>3, SteppedBack
  <2>6. h.disturbed => h'.disturbed
    BY <2>2, <2>3, NotesDisturbed
  <2>. QED
    BY <2>1, <2>4, <2>5, <2>6 DEF Upright, Probed, Straight
<1>21. CASE Merge
  BY <1>21, NotesRelocated, StaysUpright DEF Merge, Probed, Upright
<1>22. CASE MergeFails
  <2>1. h' = h \/ h' = Relocated(TRUE)
    BY <1>22 DEF MergeFails
  <2>2. (h'.stray => h'.disturbed) /\ h'.disturbed = h.disturbed
    BY <1>22, <2>1, NotesRelocated DEF MergeFails, Upright, Probed
  <2>. QED
    BY <1>22, <2>2, StaysUpright DEF MergeFails, Probed
<1>23. CASE CleanupFocus
  BY <1>23, StaysUpright DEF CleanupFocus, Goto, Probed, Upright
<1>24. CASE CleanupClose
  BY <1>24, EndsUpright, NotesFinished DEF CleanupClose, Upright, LoggedError
<1>25. CASE Snapshot
  <2>1. h'.stray = h.stray /\ h'.disturbed = h.disturbed
    BY <1>25 DEF Snapshot, History
  <2>. QED
    BY <1>25, <2>1, StaysUpright DEF Snapshot, Probed, Upright
<1>26. CASE MoveOut
  BY <1>26, NotesRelocated, StaysUpright DEF MoveOut, Probed, Upright
<1>27. CASE MoveOutFails
  <2>1. Finish(h, "appErr") \/ Finish(Relocated(TRUE), "appErr")
    BY <1>27 DEF MoveOutFails
  <2>. QED
    BY <1>27, <2>1, NotesRelocated, NotesFinished, EndsUpright DEF MoveOutFails, Upright, Probed
<1>28. CASE Spawn
  BY <1>28, StaysUpright, EndsUpright, NotesFinished DEF Spawn, Goto, Probed, Upright
<1>29. CASE Poll
  BY <1>29, StaysUpright DEF Poll, Goto, Probed, Upright
<1>30. CASE PollsDone
  BY <1>30, StaysUpright DEF PollsDone, Goto, Probed, Upright
<1>31. CASE FocusNew
  BY <1>31, StaysUpright DEF FocusNew, Goto, Probed, Upright
<1>32. CASE PlaceFocus
  BY <1>32, StaysUpright, EndsUpright, NotesFinished DEF PlaceFocus, Goto, Probed, Upright,
     LoggedError
<1>33. CASE PlaceRead
  BY <1>33, StaysUpright, EndsUpright, NotesFinished DEF PlaceRead, Goto, Probed, Upright,
     LoggedError
<1>34. CASE Place
  <2>1. Finish(Shifted("placement"), "ok") \/ Finish(h, LoggedError)
    BY <1>34 DEF Place
  <2>2. /\ Shifted("placement") \in History /\ Shifted("placement").stray = h.stray
        /\ Shifted("placement").disturbed = h.disturbed
    BY DEF Shifted, History, ScreenOK
  <2>. QED
    BY <2>1, <2>2, NotesFinished, EndsUpright DEF LoggedError, Upright
<1>35. CASE RouteRead
  BY <1>35, StaysUpright, EndsUpright, NotesFinished DEF RouteRead, Goto, Probed, Upright,
     StartProbe
<1>36. CASE Transfer
  <2>1. pc = "transfer" /\ UNCHANGED offset
    BY <1>36 DEF Transfer
  <2>2. \/ Finish(Relocated(FALSE), "ok")
        \/ pc' = "wmMove" /\ (h' = Relocated(TRUE) \/ UNCHANGED h)
    BY <1>36 DEF Transfer, TransferDone, Goto
  <2>. QED
    BY <2>1, <2>2, NotesRelocated, NotesFinished, EndsUpright, StaysUpright DEF Probed, Upright
<1>37. CASE WmMove
  <2>1. Finish(Shifted("fallback"), "ok") \/ Finish(h, "wmErr")
    BY <1>37 DEF WmMove
  <2>2. /\ Shifted("fallback") \in History /\ Shifted("fallback").stray = h.stray
        /\ Shifted("fallback").disturbed = h.disturbed
    BY DEF Shifted, History, ScreenOK
  <2>. QED
    BY <2>1, <2>2, NotesFinished, EndsUpright DEF Upright
<1>38. CASE Environment
  <2>1. UNCHANGED <<pc, s, offset>> /\ (UNCHANGED h \/ Disturb)
    BY <1>38 DEF Environment, UserFocuses, UserCloses, StrangerAppears, WindowAppears, EmptyVanishes
  <2>2. CASE UNCHANGED h
    BY <2>1, <2>2 DEF Upright, Probed, Straight, FocusingOuter, LayersOf
  <2>3. CASE h' = Disturbed(h, TRUE)
    BY <2>3, NotesDisturbed DEF Upright
  <2>. QED
    BY <2>1, <2>2, <2>3 DEF Disturb
<1>39. CASE UNCHANGED vars
  BY <1>39 DEF vars, Upright, Probed, Straight, FocusingOuter, LayersOf
<1>. QED
  BY <1>1, <1>2, <1>3, <1>4, <1>5, <1>6, <1>7, <1>8, <1>9, <1>10, <1>11, <1>12, <1>13, <1>14, <1>15,
     <1>16, <1>17, <1>18, <1>19, <1>20, <1>21, <1>22, <1>23, <1>24, <1>25, <1>26, <1>27, <1>28,
     <1>29, <1>30, <1>31, <1>32, <1>33, <1>34, <1>35, <1>36, <1>37, <1>38, <1>39 DEF Next, Request

\* Where at most one outer layer can focus, no adapter acts while the in-place probe
\* has a layer displaced, unless somebody interfered or the way back failed
\* (probe_in_place_target_for_adapter, restore_in_place_target_focus).
THEOREM ProbeIsUndone == ASSUME OneOuterFocuses PROVE Spec => []InPlaceProbeIsUndone
<1>1. Init => Upright
  BY DEF Init, Fresh, Upright
<1>2. AInv /\ Upright /\ [Next]_vars => Upright'
  BY UprightStep DEF AInv, IInv
<1>3. Upright => InPlaceProbeIsUndone
  BY DEF Upright, InPlaceProbeIsUndone
<1>. QED
  BY <1>1, <1>2, <1>3, AInvariance, PTL DEF Spec

====
