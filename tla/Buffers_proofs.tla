---- MODULE Buffers_proofs ----
(***************************************************************************)
(* Proofs about what moves within one application: buffers between nvim    *)
(* instances, panes between tmux windows, tabs between windows of VS Code. *)
(* The three share no state: each has its specification, its inductive     *)
(* invariant and its theorems.                                             *)
(***************************************************************************)
EXTENDS NvimTransfer, TmuxPanes, VscodeMerge, SequenceTheorems, TLAPS

-----------------------------------------------------------------------------
(***************************************************************************)
(* nvim: the transfer of a buffer between instances.  A lemma per action   *)
(* says what it does to the servers, the call and the history (...Effect); *)
(* the inductive invariant NInv is the conjunction of                      *)
(*   NType      the types, and that a running server has a pane,           *)
(*   Apart      no two servers in a pane, and none where a launch waits,   *)
(*   CallRight  what kind of call is where, and that its target stays,     *)
(*   Held       who holds the call's buffer at each step,                  *)
(*   Kept       that the buffer was saved when the call looked,            *)
(*   GoneFirst  that a merge that watches a swap file saw the source end,  *)
(* and each conjunct has a lemma with a step per action of NvimNext.       *)
(***************************************************************************)

\* The types.  A call that is under way has a source and a file.
AtSteps == {"idle", "mux", "split", "pane", "ready", "cleanup", "pane_read", "swap_read", "target",
            "close", "exit", "swap", "open", "pane_exit"}
Nvim == [run : BOOLEAN, dying : BOOLEAN, mute : BOOLEAN, torn : BOOLEAN, pane : NvimPane \cup {NoPane},
         open : SUBSET File, cur : File \cup {NoFile}, edited : SUBSET File, wins : Nat]
NvimCall == [op : {"none", "tear", "merge"}, src : NvimServer \cup {NoServer},
             tgt : NvimServer \cup {NoServer}, file : File \cup {NoFile},
             pane : NvimPane \cup {NoPane}, new : NvimPane \cup {NoPane}, torn : BOOLEAN, swap : BOOLEAN,
             looks : 0..MaxLooks]
Loss == [file : File, raced : BOOLEAN, aside : BOOLEAN]
NvimHist == [touched : BOOLEAN, elsewhere : BOOLEAN, gaveUp : BOOLEAN, overlap : BOOLEAN,
             mistyped : BOOLEAN, stranded : BOOLEAN, lost : SUBSET Loss]
Launch == [pane : NvimPane, file : File, of : Nat]
NType ==
  /\ ed \in [NvimServer -> Nvim]
  /\ panes \subseteq NvimPane /\ focus \in NvimPane
  /\ starting \subseteq Launch
  /\ at \in AtSteps /\ call \in NvimCall /\ hist \in NvimHist
  /\ calls \in Nat
  /\ at # "idle" => call.src \in NvimServer /\ call.file \in File
  /\ at \in {"close", "exit", "swap", "open", "pane_exit"} => call.tgt \in NvimServer
  /\ \A s \in NvimServer : /\ ed[s].run => ed[s].pane \in NvimPane
                           /\ ed[s].dying => ed[s].run

\* The first step of a call, with the history of a call that has just begun.
Begun(op, s) ==
  /\ calls' = calls + 1 /\ call' \in NvimCall /\ hist' \in NvimHist
  /\ hist'.lost = hist.lost
  /\ ~hist'.touched /\ ~hist'.gaveUp /\ ~hist'.overlap /\ ~hist'.mistyped /\ ~hist'.stranded
  /\ call'.tgt = NoServer
  /\ \/ at' = "idle" /\ call'.op = "none"
     \/ /\ Mergeable(s)
        /\ at' = IF op = "tear" THEN "mux" ELSE "pane_read"
        /\ call'.op = op /\ call'.src = s /\ call'.file = ed[s].cur /\ call'.pane = NoPane
  /\ UNCHANGED <<ed, panes, focus, split, starting, users>>

\* Nothing but server s changes; its process and its pane stay.
SameProcess(s) ==
  /\ ed' \in [NvimServer -> Nvim]
  /\ \A t \in NvimServer \ {s} : ed'[t] = ed[t]
  /\ ed'[s].run = ed[s].run /\ ed'[s].pane = ed[s].pane

\* Nothing but some fields of the history changes.
SameHist == /\ hist' \in NvimHist /\ hist'.elsewhere = hist.elsewhere
            /\ hist'.gaveUp = hist.gaveUp /\ hist'.overlap = hist.overlap
            /\ hist'.mistyped = hist.mistyped /\ hist'.stranded = hist.stranded
SameCall == /\ call' \in NvimCall
            /\ call'.op = call.op /\ call'.src = call.src /\ call'.file = call.file
            /\ call'.pane = call.pane /\ call'.torn = call.torn /\ call'.swap = call.swap
\* Nothing but the pane or the swap file of the call, which have just been read.
ReadsOf == /\ call' \in NvimCall
           /\ call'.op = call.op /\ call'.src = call.src /\ call'.tgt = call.tgt
           /\ call'.file = call.file /\ call'.torn = call.torn

\* The empty call and the empty history have their types.
LEMMA NoCallTyped == NoCall \in NvimCall /\ NoHist.lost = {}
BY NvimAssumption DEF NoCall, NvimCall, NoHist

\* move_internal at an edge begins a tear-out of the focused nvim, or nothing.
LEMMA StartEffect == ASSUME NType, StartTearOut
                     PROVE  at = "idle" /\ \E s \in NvimServer : ed[s].run /\ Live(s) /\ ed[s].pane = focus /\ Begun("tear", s)
<1>1. PICK s \in At(focus) : StartTearOut!(s)
  BY DEF StartTearOut
<1>2. s \in NvimServer /\ ed[s].run /\ ed[s].pane = focus /\ ed[s] \in Nvim
  BY DEF At, NType
<1>3. /\ hist' \in NvimHist /\ hist'.lost = hist.lost
      /\ ~hist'.touched /\ ~hist'.gaveUp /\ ~hist'.overlap /\ ~hist'.mistyped /\ ~hist'.stranded
  BY <1>1 DEF NoHist, NvimHist, NType
<1>4. ASSUME Mergeable(s) PROVE Begun("tear", s)
  <2>1. call' = [NoCall EXCEPT !.op = "tear", !.src = s, !.file = ed[s].cur]
    BY <1>1, <1>4
  <2>2. call' = [op |-> "tear", src |-> s, tgt |-> NoServer, file |-> ed[s].cur, pane |-> NoPane,
                 new |-> NoPane, torn |-> FALSE, swap |-> FALSE, looks |-> 0]
    BY <2>1 DEF NoCall
  <2>3. ed[s].cur \in File \cup {NoFile} /\ 0 \in 0..MaxLooks
    BY <1>2, NvimAssumption DEF Nvim
  <2>4. call' \in NvimCall
    BY <1>2, <2>2, <2>3 DEF NvimCall
  <2>. QED
    BY <1>1, <1>2, <1>3, <1>4, <2>2, <2>4 DEF Begun, screen
<1>5. ASSUME ~Mergeable(s) PROVE Begun("tear", s)
  <2>1. call' = NoCall /\ at' = "idle"
    BY <1>1, <1>5 DEF Idle
  <2>2. call' \in NvimCall /\ call'.op = "none" /\ call'.tgt = NoServer
    BY <2>1, NoCallTyped DEF NoCall
  <2>. QED
    BY <1>1, <1>2, <1>3, <2>1, <2>2 DEF Begun, screen
<1>. QED
  BY <1>1, <1>2, <1>4, <1>5

\* prepare_merge begins a merge of the focused nvim, or nothing.
LEMMA PrepareEffect ==
  ASSUME NType, PrepareMerge
  PROVE  at = "idle" /\ \E s \in NvimServer : ed[s].run /\ Live(s) /\ ed[s].pane = focus /\ Begun("merge", s)
<1>1. PICK s \in At(focus) : PrepareMerge!(s)
  BY DEF PrepareMerge
<1>2. s \in NvimServer /\ ed[s].run /\ ed[s].pane = focus /\ ed[s] \in Nvim
  BY DEF At, NType
<1>3. /\ hist' \in NvimHist /\ hist'.lost = hist.lost
      /\ ~hist'.touched /\ ~hist'.gaveUp /\ ~hist'.overlap /\ ~hist'.mistyped /\ ~hist'.stranded
  BY <1>1 DEF NoHist, NvimHist, NType
<1>4. ASSUME Mergeable(s) PROVE Begun("merge", s)
  <2>1. call' = [NoCall EXCEPT !.op = "merge", !.src = s, !.file = ed[s].cur, !.torn = ed[s].torn]
    BY <1>1, <1>4
  <2>2. call' = [op |-> "merge", src |-> s, tgt |-> NoServer, file |-> ed[s].cur, pane |-> NoPane,
                 new |-> NoPane, torn |-> ed[s].torn, swap |-> FALSE, looks |-> 0]
    BY <2>1 DEF NoCall
  <2>3. ed[s].cur \in File \cup {NoFile} /\ ed[s].torn \in BOOLEAN /\ 0 \in 0..MaxLooks
    BY <1>2, NvimAssumption DEF Nvim, NType
  <2>4. call' \in NvimCall
    BY <1>2, <2>2, <2>3 DEF NvimCall
  <2>5. at' = "pane_read"
    BY <1>1, <1>4
  <2>. QED
    BY <1>1, <1>2, <1>3, <1>4, <2>2, <2>4, <2>5 DEF Begun, screen
<1>5. ASSUME ~Mergeable(s) PROVE Begun("merge", s)
  <2>1. call' = NoCall /\ at' = "idle"
    BY <1>1, <1>5 DEF Idle
  <2>2. call' \in NvimCall /\ call'.op = "none" /\ call'.tgt = NoServer
    BY <2>1, NoCallTyped DEF NoCall
  <2>. QED
    BY <1>1, <1>2, <1>3, <2>1, <2>2 DEF Begun, screen
<1>. QED
  BY <1>1, <1>2, <1>4, <1>5

\* A tear-out asks for the source's pane.
LEMMA ReadSourceEffect ==
  ASSUME NType, ReadSourcePane
  PROVE  /\ at = "mux" /\ at' \in {"split", "idle"} /\ ReadsOf
         /\ UNCHANGED <<ed, screen, starting, hist, calls, users>>
<1>1. ASSUME NEW p \in NvimPane, call' = [call EXCEPT !.pane = p] PROVE ReadsOf
  BY <1>1 DEF NType, NvimCall, ReadsOf
<1>2. at = "mux" => call.src \in NvimServer
  BY DEF NType
<1>3. \A p \in {ed[call.src].pane, focus} : at = "mux" => p \in NvimPane \cup {NoPane}
  BY <1>2 DEF NType, Nvim
<1>4. ASSUME NEW p \in NvimPane \cup {NoPane}, call' = [call EXCEPT !.pane = p] PROVE ReadsOf
  BY <1>4 DEF NType, NvimCall, ReadsOf
<1>5. CASE UNCHANGED call
  BY <1>5 DEF NType, ReadsOf, ReadSourcePane, Idle
<1>. QED
  BY <1>3, <1>4, <1>5 DEF ReadSourcePane

\* prepare_merge reads a pane: none, or the one with the focus.
LEMMA ReadPaneEffect ==
  ASSUME NType, ReadFocusedPane
  PROVE  /\ at = "pane_read" /\ at' = "swap_read" /\ ReadsOf /\ call'.pane \in {focus, NoPane}
         /\ hist' \in NvimHist /\ hist'.lost = hist.lost /\ hist'.touched = hist.touched
         /\ hist'.gaveUp = hist.gaveUp /\ hist'.overlap = hist.overlap
         /\ hist'.mistyped = hist.mistyped /\ hist'.stranded = hist.stranded
         /\ hist'.elsewhere = (call'.pane \notin {NoPane, ed[call.src].pane})
         /\ UNCHANGED <<ed, screen, starting, calls, users>>
<1>1. PICK p \in {focus, NoPane} :
        /\ call' = [call EXCEPT !.pane = p]
        /\ hist' = [hist EXCEPT !.elsewhere = p \notin {NoPane, ed[call.src].pane}]
  BY DEF ReadFocusedPane
<1>2. ReadsOf /\ call'.pane = p
  BY <1>1 DEF NType, NvimCall, ReadsOf
<1>3. (p \notin {NoPane, ed[call.src].pane}) \in BOOLEAN
  OBVIOUS
<1>. QED
  BY <1>1, <1>2, <1>3 DEF ReadFocusedPane, NType, NvimHist

\* Then the name of a swap file, or it fails.
LEMMA ReadSwapEffect ==
  ASSUME NType, ReadSwap
  PROVE  /\ at = "swap_read" /\ at' \in {"target", "idle"} /\ ReadsOf /\ call'.pane = call.pane
         /\ UNCHANGED <<ed, screen, starting, hist, calls, users>>
<1>1. ASSUME NEW swap \in BOOLEAN, call' = [call EXCEPT !.swap = swap]
      PROVE  ReadsOf /\ call'.pane = call.pane
  BY <1>1 DEF NType, NvimCall, ReadsOf
<1>2. CASE UNCHANGED call
  BY <1>2 DEF NType, ReadsOf, ReadSwap, Idle
<1>. QED
  BY <1>1, <1>2 DEF ReadSwap

\* Looking once more, or from the start, leaves the call what it is.
LEMMA LookEffect ==
  ASSUME NType, NEW n \in 0..MaxLooks, call' = [call EXCEPT !.looks = n]
  PROVE  SameCall /\ call'.tgt = call.tgt
BY DEF NType, NvimCall, SameCall

\* How a call that looks at a swap file goes on.
LEMMA LookedEffect ==
  ASSUME NType, call.looks < MaxLooks, Looked
  PROVE  SameCall /\ call'.tgt = call.tgt
<1>1. call.looks + 1 \in 0..MaxLooks
  BY NvimAssumption DEF NType, NvimCall
<1>. QED
  BY <1>1, LookEffect DEF Looked

\* A call that is left alone is the same.
LEMMA UnchangedCall == ASSUME NType, UNCHANGED call PROVE SameCall /\ call'.tgt = call.tgt
BY DEF NType, SameCall

\* A history that is left alone is the same.
LEMMA UnchangedHist ==
  ASSUME NType, UNCHANGED hist
  PROVE  SameHist /\ hist'.touched = hist.touched /\ hist'.lost = hist.lost
BY DEF NType, SameHist

\* What is typed at a shell is the launch of the call's file.
Launched == \/ UNCHANGED starting
            \/ \E p \in NvimPane : /\ At(p) = {}
                                   /\ starting' = starting \cup {[pane |-> p, file |-> call.file, of |-> calls]}

\* A round of wait_for_target_terminal_pane.
LEMMA FindEffect ==
  ASSUME NType, FindTargetPane
  PROVE  /\ at = "pane" /\ SameCall /\ call'.tgt = call.tgt
         /\ \/ at' = "ready" /\ Launched
            \/ at' \in {"pane", "idle"} /\ UNCHANGED starting
         /\ UNCHANGED <<ed, screen, hist, calls, users>>
<1>1. PaneFound \subseteq NvimPane /\ PaneUnfocused \cup CurrentPane \subseteq NvimPane
  BY DEF PaneFound, PaneUnfocused, CurrentPane, Beside, NotSource, NType
<1>2. 0 \in 0..MaxLooks
  BY NvimAssumption
<1>3. ASSUME NEW p \in NvimPane, TypeLaunch(p)
      PROVE  SameCall /\ call'.tgt = call.tgt /\ at' = "ready" /\ Launched /\ UNCHANGED hist
  BY <1>2, <1>3, LookEffect DEF TypeLaunch, Launched
<1>4. CASE PaneFound = {} /\ call.looks < MaxLooks /\ Looked /\ UNCHANGED <<at, starting, hist>>
  BY <1>4, LookedEffect DEF FindTargetPane
<1>5. CASE Idle /\ UNCHANGED <<call, starting, hist>>
  BY <1>5, UnchangedCall DEF FindTargetPane, Idle
<1>. QED
  BY <1>1, <1>3, <1>4, <1>5 DEF FindTargetPane

\* A look for the launched server: the target is known, or the call fails.
LEMMA WaitTargetEffect ==
  ASSUME NType, WaitTarget
  PROVE  /\ at = "ready" /\ SameCall /\ call'.tgt = call.tgt
         /\ at' \in {"ready", "idle"} \/ (at' = "cleanup" /\ call.tgt # NoServer)
         /\ UNCHANGED <<ed, screen, starting, hist, calls, users>>
<1>1. CASE UNCHANGED call
  BY <1>1, UnchangedCall DEF WaitTarget, TargetTooLate, TornOutLate, Idle
<1>2. CASE call.looks < MaxLooks /\ Looked /\ UNCHANGED at
  BY <1>2, LookedEffect DEF WaitTarget
<1>. QED
  BY <1>1, <1>2 DEF WaitTarget

\* A look at the process of a source that was quit.
LEMMA WaitExitEffect ==
  ASSUME NType, WaitExit
  PROVE  /\ at = "exit" /\ SameCall /\ call'.tgt = call.tgt /\ at' \in {"exit", "swap"}
         /\ UNCHANGED <<ed, screen, starting, hist, calls, users>>
<1>1. 0 \in 0..MaxLooks
  BY NvimAssumption
<1>. QED
  BY <1>1, LookedEffect, LookEffect DEF WaitExit

\* A look at the swap file: the wait gives up only while it is there.
LEMMA WaitSwapEffect ==
  ASSUME NType, WaitSwap
  PROVE  /\ at = "swap" /\ SameCall /\ call'.tgt = call.tgt
         /\ \/ at' = "swap" /\ UNCHANGED hist
            \/ at' = "open" /\ hist' \in NvimHist /\ hist'.gaveUp = SwapSeen /\ hist'.lost = hist.lost
               /\ hist'.touched = hist.touched /\ hist'.overlap = hist.overlap
               /\ hist'.mistyped = hist.mistyped /\ hist'.stranded = hist.stranded
               /\ hist'.elsewhere = hist.elsewhere
         /\ UNCHANGED <<ed, screen, starting, calls, users>>
<1>1. CASE SwapSeen /\ call.looks < MaxLooks
  BY <1>1, LookedEffect DEF WaitSwap
<1>2. CASE ~(SwapSeen /\ call.looks < MaxLooks)
  <2>1. SwapSeen \in BOOLEAN
    BY DEF SwapSeen, SwapExists
  <2>2. hist' = [hist EXCEPT !.gaveUp = SwapSeen]
    BY <1>2 DEF WaitSwap
  <2>3. /\ hist' \in NvimHist /\ hist'.gaveUp = SwapSeen /\ hist'.lost = hist.lost
        /\ hist'.touched = hist.touched /\ hist'.overlap = hist.overlap
        /\ hist'.mistyped = hist.mistyped /\ hist'.stranded = hist.stranded
        /\ hist'.elsewhere = hist.elsewhere
    BY <2>1, <2>2 DEF NType, NvimHist
  <2>. QED
    BY <1>2, <2>3, UnchangedCall DEF WaitSwap
<1>. QED
  BY <1>1, <1>2

\* What a command throws away is recorded.
Records(s, files) == \A l \in hist'.lost :
  l \in hist.lost \/ (l.file \in ed[s].edited \cap files /\ l.raced = hist.touched /\ l.aside = (l.file # call.file))

\* Recording what is thrown away changes nothing else in the history.
LEMMA DiscardEffect ==
  ASSUME NType, NEW s \in NvimServer, NEW files,
         hist' = [hist EXCEPT !.lost = @ \cup Discarded(s, files)]
  PROVE  SameHist /\ hist'.touched = hist.touched /\ Records(s, files)
<1>1. ed[s].edited \subseteq File /\ hist.touched \in BOOLEAN
  BY DEF NType, Nvim, NvimHist
<1>2. Discarded(s, files) \subseteq Loss
  <2>1. ASSUME NEW f \in ed[s].edited \cap files
        PROVE  [file |-> f, raced |-> hist.touched, aside |-> f # call.file] \in Loss
    BY <1>1 DEF Loss
  <2>. QED
    BY <2>1 DEF Discarded
<1>3. SameHist /\ hist'.touched = hist.touched /\ hist'.lost = hist.lost \cup Discarded(s, files)
  BY <1>2 DEF NType, NvimHist, SameHist
<1>. QED
  BY <1>3 DEF Records, Discarded

\* Closing a window and deleting the buffer leaves a server with its process.
LEMMA CleanedEffect ==
  ASSUME NEW e \in Nvim
  PROVE  /\ Cleaned(e) \in Nvim /\ Cleaned(e).run = e.run /\ Cleaned(e).dying = e.dying
         /\ Cleaned(e).pane = e.pane /\ Cleaned(e).edited \subseteq e.edited
         /\ Cleaned(e).cur \in Cleaned(e).open \cup {NoFile}
         /\ e.edited \subseteq e.open => Cleaned(e).edited \subseteq Cleaned(e).open
<1>. DEFINE left == e.open \ {e.cur}
            wins == IF e.wins > 1 THEN e.wins - 1 ELSE e.wins
            cur == IF left = {} THEN NoFile ELSE CHOOSE f \in left : TRUE
<1>1. cur \in left \cup {NoFile}
  OBVIOUS
<1>2. wins \in Nat /\ left \subseteq File /\ e.edited \ {e.cur} \subseteq File
  BY DEF Nvim
<1>3. Cleaned(e) = [e EXCEPT !.wins = wins, !.open = left, !.edited = e.edited \ {e.cur}, !.cur = cur]
  BY DEF Cleaned
<1>4. e.edited \subseteq e.open => e.edited \ {e.cur} \subseteq left
  OBVIOUS
<1>. HIDE DEF left, wins, cur
<1>5. Cleaned(e) \in Nvim
  BY <1>1, <1>2, <1>3 DEF Nvim
<1>. QED
  BY <1>1, <1>3, <1>4, <1>5 DEF Nvim

\* The source of a tear-out drops at most the buffer that is current.
LEMMA CleanupEffect ==
  ASSUME NType, CleanupSource
  PROVE  /\ at = "cleanup" /\ at' = "idle" /\ SameHist /\ hist'.touched = hist.touched
         /\ SameProcess(call.src) /\ ed'[call.src].dying = ed[call.src].dying
         /\ ed'[call.src].edited \subseteq ed[call.src].edited
         /\ ed'[call.src] = ed[call.src] \/ ed'[call.src].cur \in ed'[call.src].open \cup {NoFile}
         /\ ed[call.src].edited \subseteq ed[call.src].open => ed'[call.src].edited \subseteq ed'[call.src].open
         /\ Records(call.src, {ed[call.src].cur})
         /\ UNCHANGED <<screen, starting, call, calls, users>>
<1>1. call.src \in NvimServer /\ at = "cleanup" /\ at' = "idle" /\ ed[call.src] \in Nvim
      /\ UNCHANGED <<screen, starting, call, calls, users>>
  BY DEF CleanupSource, NType, Idle
<1>2. CASE UNCHANGED <<hist, ed>>
  BY <1>1, <1>2, UnchangedHist DEF NType, SameProcess, Records
<1>3. CASE /\ hist' = [hist EXCEPT !.lost = @ \cup Discarded(call.src, {ed[call.src].cur})]
           /\ ed' = [ed EXCEPT ![call.src] = Cleaned(@)]
  <2>1. SameHist /\ hist'.touched = hist.touched /\ Records(call.src, {ed[call.src].cur})
    BY <1>1, <1>3, DiscardEffect
  <2>2. ed'[call.src] = Cleaned(ed[call.src]) /\ \A t \in NvimServer \ {call.src} : ed'[t] = ed[t]
    BY <1>1, <1>3 DEF NType
  <2>3. ed' \in [NvimServer -> Nvim]
    BY <1>1, <1>3, CleanedEffect DEF NType
  <2>. QED
    BY <1>1, <2>1, <2>2, <2>3, CleanedEffect DEF SameProcess
<1>. QED
  BY <1>2, <1>3 DEF CleanupSource

\* The target of a merge is a server that answers.
LEMMA MergeIntoEffect ==
  ASSUME NType, MergeIntoTarget
  PROVE  /\ at = "target" /\ at' = "close" /\ SameCall
         /\ call'.tgt \in NvimServer /\ Live(call'.tgt) /\ focus' = ed[call'.tgt].pane
         /\ UNCHANGED <<ed, panes, split, starting, hist, calls, users>>
<1>1. PICK t \in NvimServer : MergeIntoTarget!(t)
  BY DEF MergeIntoTarget
<1>2. SameCall /\ call'.tgt = t
  BY <1>1 DEF NType, NvimCall, SameCall
<1>. QED
  BY <1>1, <1>2

\* A torn-out source is told to quit, or the call fails and it is left alone.
LEMMA CloseEffect ==
  ASSUME NType, CloseSource
  PROVE  /\ at = "close" /\ SameCall /\ call'.tgt = call.tgt /\ SameHist /\ hist'.touched = hist.touched
         /\ \/ /\ QuitsSource /\ at' = "exit" /\ SameProcess(call.src) /\ ed'[call.src].edited = {} /\ ed'[call.src].dying
               /\ ed'[call.src].cur = NoFile /\ Records(call.src, File)
            \/ QuitsSource /\ at' = "idle" /\ UNCHANGED <<ed, hist>>
            \/ ~QuitsSource /\ at' = "open" /\ UNCHANGED <<ed, hist>>
         /\ UNCHANGED <<screen, starting, calls, users>>
<1>1. call.src \in NvimServer /\ at = "close" /\ UNCHANGED <<screen, starting, calls, users>>
  BY DEF CloseSource, NType
<1>2. 0 \in 0..MaxLooks
  BY NvimAssumption
<1>3. SameCall /\ call'.tgt = call.tgt
  BY <1>2, LookEffect DEF CloseSource
<1>4. CASE UNCHANGED <<ed, hist>> /\ ((QuitsSource /\ Idle) \/ (~QuitsSource /\ at' = "open"))
  BY <1>1, <1>3, <1>4, UnchangedHist DEF Idle
<1>5. CASE /\ QuitsSource /\ at' = "exit"
           /\ ed' = [ed EXCEPT ![call.src] = [@ EXCEPT !.dying = TRUE, !.open = {}, !.cur = NoFile,
                                                       !.edited = {}]]
           /\ hist' = [hist EXCEPT !.lost = @ \cup Discarded(call.src, File)]
  <2>. DEFINE e == [ed[call.src] EXCEPT !.dying = TRUE, !.open = {}, !.cur = NoFile, !.edited = {}]
  <2>1. e \in Nvim /\ e.run = ed[call.src].run /\ e.pane = ed[call.src].pane /\ e.edited = {}
        /\ e.cur = NoFile /\ e.dying
    BY <1>1, ZenonT(60) DEF NType, Nvim
  <2>2. ed' = [ed EXCEPT ![call.src] = e]
    BY <1>5
  <2>. HIDE DEF e
  <2>3. SameProcess(call.src) /\ ed'[call.src] = e
    BY <1>1, <2>1, <2>2 DEF SameProcess, NType
  <2>. QED
    BY <1>1, <1>3, <1>5, <2>1, <2>3, DiscardEffect
<1>. QED
  BY <1>4, <1>5 DEF CloseSource

\* The target shows the file, or the call fails.
LEMMA OpenEffect ==
  ASSUME NType, OpenInTarget
  PROVE  /\ at = "open" /\ hist' \in NvimHist /\ hist'.touched = hist.touched /\ hist'.lost = hist.lost
         /\ hist'.gaveUp = hist.gaveUp /\ hist'.mistyped = hist.mistyped
         /\ hist'.elsewhere = hist.elsewhere
         /\ \/ /\ at' = "pane_exit" /\ SameProcess(call.tgt) /\ ed'[call.tgt].dying = ed[call.tgt].dying
               /\ ed'[call.tgt].edited = ed[call.tgt].edited /\ ed'[call.tgt].cur = call.file
               /\ ed'[call.tgt].open = ed[call.tgt].open \cup {call.file}
               /\ hist'.overlap = (QuitsSource /\ ed[call.src].run) /\ hist'.stranded = hist.stranded
            \/ at' = "idle" /\ UNCHANGED ed /\ hist'.stranded = QuitsSource /\ hist'.overlap = hist.overlap
         /\ UNCHANGED <<screen, starting, call, calls, users>>
<1>1. call.src \in NvimServer /\ call.tgt \in NvimServer /\ at = "open" /\ call.file \in File
      /\ UNCHANGED <<screen, starting, call, calls, users>>
  BY DEF OpenInTarget, NType
<1>2. CASE UNCHANGED ed /\ hist' = [hist EXCEPT !.stranded = QuitsSource] /\ Idle
  <2>1. QuitsSource \in BOOLEAN
    BY DEF QuitsSource, NType, NvimCall
  <2>. QED
    BY <1>1, <1>2, <2>1 DEF NType, NvimHist, Idle
<1>3. CASE /\ at' = "pane_exit" /\ hist' = [hist EXCEPT !.overlap = QuitsSource /\ ed[call.src].run]
           /\ ed' = [ed EXCEPT ![call.tgt] = ShowsToo(@, call.file)]
  <2>. DEFINE e == ShowsToo(ed[call.tgt], call.file)
  <2>1. e \in Nvim /\ e.run = ed[call.tgt].run /\ e.pane = ed[call.tgt].pane /\ e.dying = ed[call.tgt].dying
        /\ e.edited = ed[call.tgt].edited /\ e.cur = call.file /\ e.open = ed[call.tgt].open \cup {call.file}
    BY <1>1 DEF NType, Nvim, ShowsToo
  <2>2. ed' = [ed EXCEPT ![call.tgt] = e]
    BY <1>3, Zenon
  <2>. HIDE DEF e
  <2>3. SameProcess(call.tgt) /\ ed'[call.tgt] = e
    BY <1>1, <2>1, <2>2 DEF SameProcess, NType
  <2>4. (QuitsSource /\ ed[call.src].run) \in BOOLEAN
    BY <1>1 DEF QuitsSource, NType, NvimCall, Nvim
  <2>5. /\ hist' \in NvimHist /\ hist'.touched = hist.touched /\ hist'.lost = hist.lost
        /\ hist'.gaveUp = hist.gaveUp /\ hist'.mistyped = hist.mistyped /\ hist'.stranded = hist.stranded
        /\ hist'.elsewhere = hist.elsewhere /\ hist'.overlap = (QuitsSource /\ ed[call.src].run)
    BY <1>3, <2>4 DEF NType, NvimHist
  <2>. QED
    BY <1>1, <1>3, <2>1, <2>3, <2>5
<1>. QED
  BY <1>2, <1>3 DEF OpenInTarget

\* Only a pane with no server in it goes.
LEMMA PaneExitEffect ==
  ASSUME NType, CleanupPane
  PROVE  /\ at = "pane_exit" /\ at' = "idle" /\ hist' \in NvimHist
         /\ hist'.touched = hist.touched /\ hist'.lost = hist.lost /\ hist'.gaveUp = hist.gaveUp
         /\ hist'.overlap = hist.overlap /\ hist'.stranded = hist.stranded
         /\ hist'.elsewhere = hist.elsewhere
         /\ hist'.mistyped => hist.mistyped \/ (call.pane # NoPane /\ QuitsSource /\ At(call.pane) # {})
         /\ panes' \subseteq panes /\ \A p \in panes \ panes' : At(p) = {}
         /\ focus' = IF focus \in panes' THEN focus ELSE ed[call.tgt].pane
         /\ UNCHANGED <<ed, split, starting, call, calls, users>>
<1>1. CASE UNCHANGED <<panes, hist>>
  BY <1>1 DEF CleanupPane, Idle, NType
<1>2. CASE /\ call.pane # NoPane /\ QuitsSource
           /\ panes' = ExitText(call.pane)
           /\ hist' = [hist EXCEPT !.mistyped = At(call.pane) # {}]
  <2>1. (At(call.pane) # {}) \in BOOLEAN
    OBVIOUS
  <2>2. /\ hist' \in NvimHist
        /\ hist'.touched = hist.touched /\ hist'.lost = hist.lost /\ hist'.gaveUp = hist.gaveUp
        /\ hist'.overlap = hist.overlap /\ hist'.stranded = hist.stranded
        /\ hist'.elsewhere = hist.elsewhere
        /\ hist'.mistyped = (At(call.pane) # {})
    BY <1>2, <2>1 DEF NType, NvimHist
  <2>3. panes' \subseteq panes /\ \A p \in panes \ panes' : At(p) = {}
    BY <1>2 DEF ExitText
  <2>. QED
    BY <1>2, <2>2, <2>3 DEF CleanupPane, Idle
<1>. QED
  BY <1>1, <1>2 DEF CleanupPane

\* A split adds a pane.
LEMMA SplitAppearsEffect ==
  ASSUME NType, SplitAppears
  PROVE  /\ SameCall /\ call'.tgt = call.tgt /\ panes \subseteq panes' /\ panes' \subseteq NvimPane
         /\ focus' \in panes' /\ split' = FALSE
         /\ UNCHANGED <<ed, starting, at, hist, calls, users>>
<1>1. PICK p \in NvimPane \ panes : panes' = panes \cup {p} /\ focus' = p /\ call' = [call EXCEPT !.new = p]
  BY DEF SplitAppears
<1>2. SameCall /\ call'.tgt = call.tgt
  BY <1>1 DEF NType, NvimCall, SameCall
<1>. QED
  BY <1>1, <1>2 DEF SplitAppears, NType

\* A launch starts one server, in the pane it was typed into.
LEMMA TargetStartsEffect ==
  ASSUME NType, TargetStarts
  PROVE  \E s \in NvimServer, l \in starting :
           /\ s # call.src /\ ~ed[s].run /\ l.pane \in panes
           /\ ed' \in [NvimServer -> Nvim] /\ \A t \in NvimServer \ {s} : ed'[t] = ed[t]
           /\ ed'[s].run /\ ~ed'[s].dying /\ ed'[s].pane = l.pane
           /\ ed'[s].edited = {} /\ ed'[s].open = {l.file} /\ ed'[s].cur = l.file
           /\ SameCall /\ call'.tgt = IF l.of = calls THEN s ELSE call.tgt
           /\ starting' = {k \in starting : k.pane # l.pane}
           /\ UNCHANGED <<screen, at, hist, calls, users>>
<1>1. PICK l \in starting, s \in NvimServer \ {call.src} : TargetStarts!(l, s)
  BY DEF TargetStarts
<1>2. l.pane \in NvimPane /\ l.file \in File
  BY DEF NType, Launch
<1>. DEFINE open == {l.file}
            e == [NoNvim EXCEPT !.run = TRUE, !.torn = TRUE, !.pane = l.pane, !.open = open, !.cur = l.file]
<1>3. open \in SUBSET File
  BY <1>2
<1>4. /\ e \in Nvim /\ e.run /\ ~e.dying /\ e.pane = l.pane
      /\ e.edited = {} /\ e.open = open /\ e.cur = l.file
  <2>. HIDE DEF open
  <2>. QED
    BY <1>2, <1>3 DEF NoNvim, Nvim
<1>5. ed' = [ed EXCEPT ![s] = e]
  BY <1>1
<1>6. ~ed[s].run
  BY <1>1 DEF NoNvim
<1>7. SameCall /\ call'.tgt = IF l.of = calls THEN s ELSE call.tgt
  <2>1. CASE l.of = calls
    BY <1>1, <2>1 DEF NType, NvimCall, SameCall
  <2>2. CASE l.of # calls
    BY <1>1, <2>2, UnchangedCall
  <2>. QED
    BY <2>1, <2>2
<1>8. ed'[s] = e /\ ed' \in [NvimServer -> Nvim] /\ \A t \in NvimServer \ {s} : ed'[t] = ed[t]
  <2>. HIDE DEF e
  <2>. QED
    BY <1>4, <1>5 DEF NType
<1>. HIDE DEF e
<1>. QED
  BY <1>1, <1>4, <1>6, <1>7, <1>8

\* A server that does not run.
LEMMA NoNvimTyped == NoNvim \in Nvim /\ ~NoNvim.run /\ ~NoNvim.dying /\ NoNvim.edited = {}
                     /\ NoNvim.cur = NoFile
BY DEF NoNvim, Nvim

\* Only a server that was told to quit goes.
LEMMA ServerExitsEffect ==
  ASSUME NType, ServerExits
  PROVE  \E s \in NvimServer :
           /\ ed[s].dying
           /\ ed' \in [NvimServer -> Nvim] /\ \A t \in NvimServer \ {s} : ed'[t] = ed[t]
           /\ ed'[s].run => ed[s].run /\ ed'[s].pane = ed[s].pane
           /\ ed'[s].dying => ed'[s].run
           /\ \/ ed'[s].edited = {} /\ ed'[s].cur = NoFile
              \/ ed'[s].edited = ed[s].edited /\ ed'[s].cur = ed[s].cur /\ ed'[s].open = ed[s].open
           /\ UNCHANGED <<screen, starting, at, call, hist, calls, users>>
<1>1. PICK s \in NvimServer : ServerExits!(s)
  BY DEF ServerExits
<1>. DEFINE e == IF ed[s].mute THEN NoNvim ELSE [ed[s] EXCEPT !.mute = TRUE]
<1>2. /\ e \in Nvim /\ (e.run => ed[s].run /\ e.pane = ed[s].pane) /\ (e.dying => e.run)
      /\ \/ e.edited = {} /\ e.cur = NoFile
         \/ e.edited = ed[s].edited /\ e.cur = ed[s].cur /\ e.open = ed[s].open
  <2>1. CASE ed[s].mute
    BY <2>1, NoNvimTyped
  <2>2. CASE ~ed[s].mute
    <3>1. e = [ed[s] EXCEPT !.mute = TRUE] /\ ed[s] \in Nvim /\ ed[s].dying
      BY <1>1, <2>2 DEF NType
    <3>2. ed[s].run
      BY <1>1 DEF NType
    <3>. HIDE DEF e
    <3>. QED
      BY <3>1, <3>2 DEF Nvim
  <2>. QED
    BY <2>1, <2>2
<1>3. ed' = [ed EXCEPT ![s] = e]
  BY <1>1, Zenon
<1>. HIDE DEF e
<1>4. ed'[s] = e /\ ed' \in [NvimServer -> Nvim] /\ \A t \in NvimServer \ {s} : ed'[t] = ed[t]
  BY <1>2, <1>3 DEF NType
<1>. QED
  BY <1>1, <1>2, <1>4

\* What the user does to a buffer is recorded.
Touched == SameHist /\ hist'.touched /\ hist'.lost = hist.lost

\* The history notes the user.
LEMMA TouchEffect == ASSUME NType, hist' = [hist EXCEPT !.touched = TRUE] PROVE Touched
BY DEF NType, NvimHist, SameHist, Touched

\* The user edits one buffer of one server.
LEMMA EditsEffect ==
  ASSUME NType, UserEdits
  PROVE  /\ Touched
         /\ \E s \in NvimServer :
              /\ SameProcess(s) /\ ed'[s].dying = ed[s].dying
              /\ ed'[s].open = ed[s].open /\ ed'[s].cur = ed[s].cur
              /\ ed[s].cur # NoFile /\ ed'[s].edited = ed[s].edited \cup {ed[s].cur}
         /\ UNCHANGED <<screen, starting, at, call, calls>>
<1>1. PICK s \in At(focus) : /\ Live(s) /\ ed[s].cur # NoFile
                             /\ ed' = [ed EXCEPT ![s].edited = @ \cup {ed[s].cur}]
  BY DEF UserEdits
<1>2. s \in NvimServer /\ ed[s] \in Nvim
  BY DEF At, NType
<1>. DEFINE e == [ed[s] EXCEPT !.edited = @ \cup {ed[s].cur}]
<1>3. e \in Nvim /\ e.run = ed[s].run /\ e.pane = ed[s].pane /\ e.dying = ed[s].dying
      /\ e.open = ed[s].open /\ e.cur = ed[s].cur /\ e.edited = ed[s].edited \cup {ed[s].cur}
  BY <1>1, <1>2 DEF Nvim
<1>4. ed' = [ed EXCEPT ![s] = e]
  BY <1>1
<1>5. SameProcess(s) /\ ed'[s] = e
  <2>. HIDE DEF e
  <2>. QED
    BY <1>2, <1>3, <1>4 DEF NType, SameProcess
<1>6. UNCHANGED <<screen, starting, at, call, calls>>
  BY DEF UserEdits, UserTurn, screen
<1>. QED
  BY <1>1, <1>2, <1>3, <1>5, <1>6, TouchEffect DEF UserEdits

\* The user shows another buffer in one server.
LEMMA SwitchesEffect ==
  ASSUME NType, UserSwitchesBuffer
  PROVE  /\ Touched
         /\ \E s \in NvimServer :
              /\ SameProcess(s) /\ ed'[s].dying = ed[s].dying /\ ed[s].open \subseteq ed'[s].open
              /\ ed'[s].edited = ed[s].edited /\ ed'[s].cur \in ed'[s].open
         /\ UNCHANGED <<screen, starting, at, call, calls>>
<1>1. PICK s \in At(focus), f \in File :
        /\ Live(s) /\ f # ed[s].cur
        /\ ed' = [ed EXCEPT ![s].cur = f, ![s].open = @ \cup {f}]
  BY DEF UserSwitchesBuffer
<1>2. s \in NvimServer /\ ed[s] \in Nvim
  BY DEF At, NType
<1>. DEFINE e == [ed[s] EXCEPT !.cur = f, !.open = @ \cup {f}]
<1>3. e \in Nvim /\ e.run = ed[s].run /\ e.pane = ed[s].pane /\ e.dying = ed[s].dying
      /\ e.open = ed[s].open \cup {f} /\ e.cur = f /\ e.edited = ed[s].edited
  BY <1>1, <1>2 DEF Nvim
<1>4. ed' = [ed EXCEPT ![s] = e]
  BY <1>1, <1>2 DEF NType, Nvim
<1>5. SameProcess(s) /\ ed'[s] = e
  <2>. HIDE DEF e
  <2>. QED
    BY <1>2, <1>3, <1>4 DEF NType, SameProcess
<1>6. UNCHANGED <<screen, starting, at, call, calls>>
  BY DEF UserSwitchesBuffer, UserTurn, screen
<1>. QED
  BY <1>2, <1>3, <1>5, <1>6, TouchEffect DEF UserSwitchesBuffer

\* The user moves the focus and nothing else.
LEMMA FocusesEffect ==
  ASSUME UserFocuses
  PROVE  focus' \in panes /\ UNCHANGED <<ed, panes, split, starting, at, call, hist, calls>>
BY DEF UserFocuses, UserTurn

\* Asking for a split moves no server.
LEMMA SplitPaneEffect ==
  ASSUME SplitPane
  PROVE  /\ at = "split" /\ at' \in {"pane", "idle"}
         /\ UNCHANGED <<ed, panes, focus, starting, call, hist, calls, users>>
BY DEF SplitPane, Idle

\* What runs is in a pane of its own, and what was typed at a shell finds one.
Apart ==
  /\ focus \in panes
  /\ \A s \in NvimServer : /\ ed[s].run => ed[s].pane \in panes
                           /\ ed[s].edited \subseteq ed[s].open
                           /\ ed[s].cur \in ed[s].open \cup {NoFile}
  /\ \A s, t \in NvimServer : ed[s].run /\ ed[t].run /\ ed[s].pane = ed[t].pane => s = t
  /\ \A s \in NvimServer, l \in starting : ed[s].run => ed[s].pane # l.pane

\* The steps of the two kinds of call, and who holds its buffer.
Tearing == {"mux", "split", "pane", "ready", "cleanup"}
Preparing == {"pane_read", "swap_read", "target"}
MergeUnderWay == Preparing \cup {"close", "exit", "swap", "open", "pane_exit"}
Quit == {"exit", "swap"}
Holds(s) == Live(s) /\ call.file \in ed[s].open

\* A tear-out's target is not its source; a merge's target answers.
CallRight ==
  /\ at # "idle" => call.op = IF at \in Tearing THEN "tear" ELSE "merge"
  /\ call.op = "none" => at = "idle"
  /\ \A l \in starting : l.of <= calls /\ (l.of = calls => call.op = "tear" /\ l.file = call.file)
  /\ call.op = "tear" /\ call.tgt # NoServer => call.tgt # call.src /\ Holds(call.tgt)
  /\ at = "cleanup" => call.tgt # NoServer
  /\ at \in MergeUnderWay \ Preparing => Live(call.tgt)
  /\ at \in Preparing => call.tgt = NoServer

\* The source holds the buffer until another does, or until it has been quit.
Held ==
  /\ at \in Tearing \cup Preparing \cup {"close"} => Holds(call.src)
  /\ at \in Quit => QuitsSource
  /\ at = "open" => QuitsSource \/ Holds(call.src)
  /\ at = "pane_exit" => Holds(call.tgt)
  /\ BufferHeld

\* While nobody touches a buffer, the call's stays saved at the source.
Kept ==
  /\ at \in Tearing \cup Preparing \cup {"close"} /\ ~hist.touched => call.file \notin ed[call.src].edited
  /\ CheckedEditsKept

\* The pane of a merge is the source's, until it has ended, and nothing else starts there,
\* unless the user was elsewhere when it was read.
GoneFirst ==
  /\ at \in MergeUnderWay /\ call.pane # NoPane /\ ~hist.elsewhere =>
       /\ \A s \in NvimServer \ {call.src} : ed[s].run => ed[s].pane # call.pane
       /\ \A l \in starting : l.pane # call.pane
  /\ at = "pane_read" => call.pane = NoPane
  /\ at \notin {"idle", "pane_exit"} => ~hist.overlap
  /\ at # "idle" => ~hist.mistyped
  /\ at \in {"open", "pane_exit"} /\ QuitsSource /\ call.swap => hist.gaveUp \/ ~ed[call.src].run
  /\ SourceGoneFirst

\* The inductive invariant.
NInv == NType /\ Apart /\ CallRight /\ Held /\ Kept /\ GoneFirst

\* Every step keeps the types.
LEMMA TypeStep == ASSUME NType, Apart, CallRight, Held, NvimNext PROVE NType'
<1>1. CASE StartTearOut
  BY <1>1, StartEffect DEF Begun, Mergeable, NType, AtSteps, NvimCall
<1>2. CASE PrepareMerge
  BY <1>2, PrepareEffect DEF Begun, Mergeable, NType, AtSteps, NvimCall
<1>3. CASE SplitPane
  BY <1>3, SplitPaneEffect DEF NType, AtSteps
<1>4. CASE FindTargetPane
  BY <1>4, FindEffect DEF SameCall, Launched, screen, NType, AtSteps, Launch
<1>5. CASE WaitTarget
  BY <1>5, WaitTargetEffect DEF SameCall, screen, NType, AtSteps
<1>6. CASE CleanupSource
  BY <1>6, CleanupEffect DEF SameProcess, SameHist, screen, NType, AtSteps
<1>7. CASE MergeIntoTarget
  BY <1>7, MergeIntoEffect DEF SameCall, NType, Live, AtSteps
<1>8. CASE CloseSource
  BY <1>8, CloseEffect
     DEF SameCall, SameHist, SameProcess, screen, NType, Held, Holds, Live, AtSteps
<1>9. CASE WaitExit
  BY <1>9, WaitExitEffect DEF SameCall, screen, NType, AtSteps
<1>10. CASE WaitSwap
  BY <1>10, WaitSwapEffect DEF SameCall, screen, NType, AtSteps
<1>11. CASE OpenInTarget
  BY <1>11, OpenEffect DEF SameProcess, screen, NType, AtSteps
<1>12. CASE CleanupPane
  BY <1>12, PaneExitEffect DEF NType, Held, Holds, Live, AtSteps
<1>13. CASE SplitAppears
  BY <1>13, SplitAppearsEffect DEF SameCall, NType
<1>14. CASE TargetStarts
  BY <1>14, TargetStartsEffect DEF SameCall, screen, NType
<1>15. CASE ServerExits
  BY <1>15, ServerExitsEffect DEF screen, NType
<1>16. CASE UserFocuses
  BY <1>16, FocusesEffect DEF NType
<1>17. CASE UserEdits
  BY <1>17, EditsEffect DEF Touched, SameHist, SameProcess, screen, NType
<1>18. CASE UserSwitchesBuffer
  BY <1>18, SwitchesEffect DEF Touched, SameHist, SameProcess, screen, NType
<1>19. CASE ReadSourcePane
  BY <1>19, ReadSourceEffect
     DEF ReadsOf, screen, NType, AtSteps
<1>20. CASE ReadFocusedPane
  BY <1>20, ReadPaneEffect
     DEF ReadsOf, screen, NType, AtSteps
<1>21. CASE ReadSwap
  BY <1>21, ReadSwapEffect
     DEF ReadsOf, screen, NType, AtSteps
<1>. QED
  BY <1>1, <1>2, <1>3, <1>4, <1>5, <1>6, <1>7, <1>8, <1>9, <1>10, <1>11, <1>12, <1>13, <1>14, <1>15,
     <1>16, <1>17, <1>18, <1>19, <1>20, <1>21 DEF NvimNext, TearOutStep, MergeStep, UserStep

\* No step puts two servers into one pane, or one where a launch is typed.
LEMMA ApartStep == ASSUME NType, Apart, CallRight, Held, NvimNext PROVE Apart'
<1>1. CASE StartTearOut
  BY <1>1, StartEffect DEF Begun, Apart
<1>2. CASE PrepareMerge
  BY <1>2, PrepareEffect DEF Begun, Apart
<1>3. CASE SplitPane
  BY <1>3, SplitPaneEffect DEF NType, Apart
<1>4. CASE FindTargetPane
  BY <1>4, FindEffect DEF SameCall, Launched, screen, Apart, At
<1>5. CASE WaitTarget
  BY <1>5, WaitTargetEffect DEF SameCall, screen, Apart
<1>6. CASE CleanupSource
  BY <1>6, CleanupEffect DEF SameProcess, screen, Apart
<1>7. CASE MergeIntoTarget
  BY <1>7, MergeIntoEffect DEF SameCall, Apart, Live
<1>8. CASE CloseSource
  BY <1>8, CloseEffect DEF SameCall, SameProcess, screen, Apart
<1>9. CASE WaitExit
  BY <1>9, WaitExitEffect DEF SameCall, screen, Apart
<1>10. CASE WaitSwap
  BY <1>10, WaitSwapEffect DEF SameCall, screen, Apart
<1>11. CASE OpenInTarget
  BY <1>11, OpenEffect DEF SameProcess, screen, Apart
<1>12. CASE CleanupPane
  BY <1>12, PaneExitEffect DEF NType, Apart, Held, Holds, Live, At
<1>13. CASE SplitAppears
  <2>1. panes \subseteq panes' /\ focus' \in panes' /\ UNCHANGED <<ed, starting>>
    BY <1>13, SplitAppearsEffect
  <2>. QED
    BY <2>1 DEF Apart
<1>14. CASE TargetStarts
  BY <1>14, TargetStartsEffect DEF SameCall, screen, Apart
<1>15. CASE ServerExits
  <2>1. PICK s \in NvimServer :
          /\ \A t \in NvimServer \ {s} : ed'[t] = ed[t]
          /\ ed'[s].run => ed[s].run /\ ed'[s].pane = ed[s].pane
          /\ ed'[s].edited \subseteq ed'[s].open /\ ed'[s].cur \in ed'[s].open \cup {NoFile}
          /\ UNCHANGED <<panes, focus, starting>>
    BY <1>15, ServerExitsEffect DEF Apart, screen
  <2>. QED
    BY <2>1 DEF Apart
<1>16. CASE UserFocuses
  BY <1>16, FocusesEffect DEF NType, Apart
<1>17. CASE UserEdits
  BY <1>17, EditsEffect DEF Touched, SameProcess, screen, Apart
<1>18. CASE UserSwitchesBuffer
  BY <1>18, SwitchesEffect DEF Touched, SameProcess, screen, Apart
<1>19. CASE ReadSourcePane
  BY <1>19, ReadSourceEffect
     DEF screen, NType, Apart
<1>20. CASE ReadFocusedPane
  BY <1>20, ReadPaneEffect
     DEF screen, NType, Apart
<1>21. CASE ReadSwap
  BY <1>21, ReadSwapEffect
     DEF screen, NType, Apart
<1>. QED
  BY <1>1, <1>2, <1>3, <1>4, <1>5, <1>6, <1>7, <1>8, <1>9, <1>10, <1>11, <1>12, <1>13, <1>14, <1>15,
     <1>16, <1>17, <1>18, <1>19, <1>20, <1>21 DEF NvimNext, TearOutStep, MergeStep, UserStep

\* A call keeps to its kind and its buffer, and a target that has started stays.
LEMMA CallRightStep == ASSUME NType, Apart, CallRight, Held, NvimNext PROVE CallRight'
<1>1. CASE StartTearOut
  BY <1>1, StartEffect DEF Begun, NType, CallRight, Tearing, Preparing, MergeUnderWay, Launch
<1>2. CASE PrepareMerge
  BY <1>2, PrepareEffect DEF Begun, NType, CallRight, Tearing, Preparing, MergeUnderWay, Launch
<1>3. CASE SplitPane
  BY <1>3, SplitPaneEffect DEF NType, CallRight, Holds, Live, Tearing, Preparing, MergeUnderWay
<1>4. CASE FindTargetPane
  BY <1>4, FindEffect DEF SameCall, Launched, NType, CallRight, Holds, Live, Tearing, Preparing, MergeUnderWay
<1>5. CASE WaitTarget
  BY <1>5, WaitTargetEffect DEF SameCall, CallRight, Holds, Live, Tearing, Preparing, MergeUnderWay
<1>6. CASE CleanupSource
  BY <1>6, CleanupEffect DEF SameProcess, NType, CallRight, Holds, Live, Preparing, MergeUnderWay, NvimCall
<1>7. CASE MergeIntoTarget
  BY <1>7, MergeIntoEffect DEF SameCall, CallRight, Live, Tearing, Preparing
<1>8. CASE CloseSource
  BY <1>8, CloseEffect
     DEF SameCall, SameProcess, NType, CallRight, Live, Tearing, Preparing, MergeUnderWay, QuitsSource
<1>9. CASE WaitExit
  BY <1>9, WaitExitEffect DEF SameCall, CallRight, Live, Tearing, Preparing, MergeUnderWay
<1>10. CASE WaitSwap
  BY <1>10, WaitSwapEffect DEF SameCall, CallRight, Live, Tearing, Preparing, MergeUnderWay
<1>11. CASE OpenInTarget
  BY <1>11, OpenEffect DEF SameProcess, CallRight, Live, Tearing, Preparing, MergeUnderWay
<1>12. CASE CleanupPane
  BY <1>12, PaneExitEffect DEF NType, CallRight, Tearing, Preparing, MergeUnderWay
<1>13. CASE SplitAppears
  <2>1. /\ call'.op = call.op /\ call'.src = call.src /\ call'.tgt = call.tgt /\ call'.file = call.file
        /\ UNCHANGED <<ed, starting, at, calls>>
    BY <1>13, SplitAppearsEffect DEF SameCall
  <2>. QED
    BY <2>1 DEF CallRight, Holds, Live
<1>14. CASE TargetStarts
  BY <1>14, TargetStartsEffect, NvimAssumption
     DEF SameCall, NType, CallRight, Holds, Live, Tearing, Preparing, MergeUnderWay, NvimCall
<1>15. CASE ServerExits
  BY <1>15, ServerExitsEffect DEF screen, NType, CallRight, Holds, Live, Preparing, MergeUnderWay, NvimCall
<1>16. CASE UserFocuses
  BY <1>16, FocusesEffect DEF NType, CallRight, Holds, Live
<1>17. CASE UserEdits
  BY <1>17, EditsEffect DEF Touched, SameProcess, NType, CallRight, Holds, Live, Preparing, MergeUnderWay, NvimCall
<1>18. CASE UserSwitchesBuffer
  BY <1>18, SwitchesEffect
     DEF Touched, SameProcess, NType, CallRight, Holds, Live, Preparing, MergeUnderWay, NvimCall
<1>19. CASE ReadSourcePane
  BY <1>19, ReadSourceEffect
     DEF ReadsOf, NType, CallRight, Holds, Live, Tearing, Preparing, MergeUnderWay
<1>20. CASE ReadFocusedPane
  BY <1>20, ReadPaneEffect
     DEF ReadsOf, NType, CallRight, Holds, Live, Tearing, Preparing, MergeUnderWay
<1>21. CASE ReadSwap
  BY <1>21, ReadSwapEffect
     DEF ReadsOf, NType, CallRight, Holds, Live, Tearing, Preparing, MergeUnderWay
<1>. QED
  BY <1>1, <1>2, <1>3, <1>4, <1>5, <1>6, <1>7, <1>8, <1>9, <1>10, <1>11, <1>12, <1>13, <1>14, <1>15,
     <1>16, <1>17, <1>18, <1>19, <1>20, <1>21 DEF NvimNext, TearOutStep, MergeStep, UserStep

\* The source keeps the buffer until the target is known, or until it is quit.
LEMMA HeldStep == ASSUME NType, Apart, CallRight, Held, NvimNext PROVE Held'
<1>1. CASE StartTearOut
  <2>1. PICK s \in NvimServer : ed[s].run /\ Live(s) /\ Begun("tear", s)
    BY <1>1, StartEffect
  <2>2. CASE at' = "idle" /\ call'.op = "none"
    BY <2>2 DEF Held, BufferHeld, Tearing, Preparing, Quit
  <2>3. CASE at' = "mux" /\ Mergeable(s) /\ call'.src = s /\ call'.file = ed[s].cur
    <3>1. Holds(s)'
      BY <2>1, <2>3 DEF Begun, Mergeable, Holds, Live, Apart
    <3>. QED
      BY <2>3, <3>1 DEF Held, BufferHeld, Tearing, Preparing, Quit
  <2>. QED
    BY <2>1, <2>2, <2>3 DEF Begun
<1>2. CASE PrepareMerge
  <2>1. PICK s \in NvimServer : ed[s].run /\ Live(s) /\ Begun("merge", s)
    BY <1>2, PrepareEffect
  <2>2. CASE at' = "idle" /\ call'.op = "none"
    BY <2>2 DEF Held, BufferHeld, Tearing, Preparing, Quit
  <2>3. CASE at' = "pane_read" /\ Mergeable(s) /\ call'.src = s /\ call'.file = ed[s].cur
    <3>1. Holds(s)'
      BY <2>1, <2>3 DEF Begun, Mergeable, Holds, Live, Apart
    <3>. QED
      BY <2>3, <3>1 DEF Held, BufferHeld, Tearing, Preparing, Quit
  <2>. QED
    BY <2>1, <2>2, <2>3 DEF Begun
<1>3. CASE SplitPane
  BY <1>3, SplitPaneEffect DEF NType, Held, Holds, Live, Tearing, Preparing, Quit, BufferHeld
<1>4. CASE FindTargetPane
  BY <1>4, FindEffect DEF SameCall, NType, Held, Holds, Live, Tearing, Preparing, Quit, BufferHeld
<1>5. CASE WaitTarget
  BY <1>5, WaitTargetEffect DEF SameCall, NType, Held, Holds, Live, Tearing, Preparing, Quit, BufferHeld
<1>6. CASE CleanupSource
  BY <1>6, CleanupEffect
     DEF SameProcess, NType, CallRight, Held, Holds, Live, Tearing, Preparing, Quit, BufferHeld, NvimCall
<1>7. CASE MergeIntoTarget
  BY <1>7, MergeIntoEffect DEF SameCall, Held, Holds, Live, Tearing, Preparing, Quit, BufferHeld
<1>8. CASE CloseSource
  BY <1>8, CloseEffect
     DEF SameCall, NType, Held, Holds, Live, Tearing, Preparing, Quit, QuitsSource, BufferHeld
<1>9. CASE WaitExit
  BY <1>9, WaitExitEffect DEF SameCall, Held, Tearing, Preparing, Quit, QuitsSource, BufferHeld
<1>10. CASE WaitSwap
  BY <1>10, WaitSwapEffect DEF SameCall, Held, Tearing, Preparing, Quit, QuitsSource, BufferHeld
<1>11. CASE OpenInTarget
  BY <1>11, OpenEffect
     DEF SameProcess, NType, CallRight, Held, Holds, Live, Tearing, Preparing, MergeUnderWay, Quit, BufferHeld
<1>12. CASE CleanupPane
  BY <1>12, PaneExitEffect DEF NType, Held, Holds, Live, Tearing, Preparing, Quit, BufferHeld
<1>13. CASE SplitAppears
  BY <1>13, SplitAppearsEffect DEF SameCall, Held, Holds, Live, QuitsSource, BufferHeld
<1>14. CASE TargetStarts
  BY <1>14, TargetStartsEffect
     DEF SameCall, NType, CallRight, Held, Holds, Live, Tearing, Preparing, QuitsSource, BufferHeld
<1>15. CASE ServerExits
  BY <1>15, ServerExitsEffect DEF screen, NType, Held, Holds, Live, Tearing, Preparing, QuitsSource, BufferHeld
<1>16. CASE UserFocuses
  BY <1>16, FocusesEffect DEF NType, Held, Holds, Live, QuitsSource, BufferHeld
<1>17. CASE UserEdits
  BY <1>17, EditsEffect
     DEF Touched, SameHist, SameProcess, NType, Held, Holds, Live, Tearing, Preparing, QuitsSource, BufferHeld
<1>18. CASE UserSwitchesBuffer
  BY <1>18, SwitchesEffect
     DEF Touched, SameHist, SameProcess, NType, Held, Holds, Live, Tearing, Preparing, QuitsSource, BufferHeld
<1>19. CASE ReadSourcePane
  BY <1>19, ReadSourceEffect
     DEF ReadsOf, NType, Held, Holds, Live, Tearing, Preparing, Quit, BufferHeld
<1>20. CASE ReadFocusedPane
  BY <1>20, ReadPaneEffect
     DEF ReadsOf, NType, Held, Holds, Live, Tearing, Preparing, Quit, BufferHeld
<1>21. CASE ReadSwap
  BY <1>21, ReadSwapEffect
     DEF ReadsOf, NType, Held, Holds, Live, Tearing, Preparing, Quit, BufferHeld
<1>. QED
  BY <1>1, <1>2, <1>3, <1>4, <1>5, <1>6, <1>7, <1>8, <1>9, <1>10, <1>11, <1>12, <1>13, <1>14, <1>15,
     <1>16, <1>17, <1>18, <1>19, <1>20, <1>21 DEF NvimNext, TearOutStep, MergeStep, UserStep

\* What the source drops unraced is the buffer that was found saved.
LEMMA KeptStep == ASSUME NType, Apart, CallRight, Held, Kept, NvimNext PROVE Kept'
<1>1. CASE StartTearOut
  BY <1>1, StartEffect DEF Begun, Mergeable, Kept, CheckedEditsKept, Tearing, Preparing
<1>2. CASE PrepareMerge
  BY <1>2, PrepareEffect DEF Begun, Mergeable, Kept, CheckedEditsKept, Tearing, Preparing
<1>3. CASE SplitPane
  BY <1>3, SplitPaneEffect DEF NType, Kept, CheckedEditsKept, Tearing, Preparing
<1>4. CASE FindTargetPane
  BY <1>4, FindEffect DEF SameCall, Kept, CheckedEditsKept, Tearing, Preparing
<1>5. CASE WaitTarget
  BY <1>5, WaitTargetEffect DEF SameCall, Kept, CheckedEditsKept, Tearing, Preparing
<1>6. CASE CleanupSource
  BY <1>6, CleanupEffect DEF SameProcess, Kept, CheckedEditsKept, Tearing, Preparing, Records
<1>7. CASE MergeIntoTarget
  BY <1>7, MergeIntoEffect DEF SameCall, Kept, CheckedEditsKept, Preparing
<1>8. CASE CloseSource
  BY <1>8, CloseEffect DEF SameCall, Kept, CheckedEditsKept, Records
<1>9. CASE WaitExit
  BY <1>9, WaitExitEffect DEF SameCall, Kept, CheckedEditsKept, Tearing, Preparing
<1>10. CASE WaitSwap
  BY <1>10, WaitSwapEffect DEF SameCall, Kept, CheckedEditsKept, Tearing, Preparing
<1>11. CASE OpenInTarget
  BY <1>11, OpenEffect DEF SameProcess, Kept, CheckedEditsKept, Tearing, Preparing
<1>12. CASE CleanupPane
  BY <1>12, PaneExitEffect DEF NType, Kept, CheckedEditsKept, Tearing, Preparing
<1>13. CASE SplitAppears
  BY <1>13, SplitAppearsEffect DEF SameCall, Kept, CheckedEditsKept
<1>14. CASE TargetStarts
  BY <1>14, TargetStartsEffect DEF SameCall, NType, Kept, CheckedEditsKept, Tearing, Preparing
<1>15. CASE ServerExits
  BY <1>15, ServerExitsEffect DEF screen, NType, Kept, CheckedEditsKept, Tearing, Preparing
<1>16. CASE UserFocuses
  BY <1>16, FocusesEffect DEF NType, Kept, CheckedEditsKept
<1>17. CASE UserEdits
  BY <1>17, EditsEffect DEF Touched, Kept, CheckedEditsKept
<1>18. CASE UserSwitchesBuffer
  BY <1>18, SwitchesEffect DEF Touched, Kept, CheckedEditsKept
<1>19. CASE ReadSourcePane
  BY <1>19, ReadSourceEffect
     DEF ReadsOf, NType, Kept, CheckedEditsKept, Tearing, Preparing
<1>20. CASE ReadFocusedPane
  BY <1>20, ReadPaneEffect
     DEF ReadsOf, NType, Kept, CheckedEditsKept, Tearing, Preparing
<1>21. CASE ReadSwap
  BY <1>21, ReadSwapEffect
     DEF ReadsOf, NType, Kept, CheckedEditsKept, Tearing, Preparing
<1>. QED
  BY <1>1, <1>2, <1>3, <1>4, <1>5, <1>6, <1>7, <1>8, <1>9, <1>10, <1>11, <1>12, <1>13, <1>14, <1>15,
     <1>16, <1>17, <1>18, <1>19, <1>20, <1>21 DEF NvimNext, TearOutStep, MergeStep, UserStep

\* A merge that watches a swap file waits for the source's end.
LEMMA GoneFirstStep == ASSUME NType, Apart, CallRight, Held, GoneFirst, NvimNext PROVE GoneFirst'
<1>1. CASE StartTearOut
  BY <1>1, StartEffect DEF Begun, GoneFirst, SourceGoneFirst, Preparing, MergeUnderWay
<1>2. CASE PrepareMerge
  BY <1>2, PrepareEffect DEF Begun, GoneFirst, SourceGoneFirst, Preparing, MergeUnderWay, Apart
<1>3. CASE SplitPane
  BY <1>3, SplitPaneEffect DEF NType, GoneFirst, SourceGoneFirst, Preparing, MergeUnderWay
<1>4. CASE FindTargetPane
  BY <1>4, FindEffect DEF SameCall, GoneFirst, SourceGoneFirst, Preparing, MergeUnderWay
<1>5. CASE WaitTarget
  BY <1>5, WaitTargetEffect DEF SameCall, GoneFirst, SourceGoneFirst, Preparing, MergeUnderWay
<1>6. CASE CleanupSource
  BY <1>6, CleanupEffect DEF SameProcess, SameHist, GoneFirst, SourceGoneFirst, Preparing, MergeUnderWay
<1>7. CASE MergeIntoTarget
  BY <1>7, MergeIntoEffect DEF SameCall, GoneFirst, SourceGoneFirst, Preparing, MergeUnderWay
<1>8. CASE CloseSource
  BY <1>8, CloseEffect
     DEF SameCall, SameHist, SameProcess, GoneFirst, SourceGoneFirst, QuitsSource, Preparing, MergeUnderWay
<1>9. CASE WaitExit
  BY <1>9, WaitExitEffect DEF SameCall, GoneFirst, SourceGoneFirst, Preparing, MergeUnderWay
<1>10. CASE WaitSwap
  BY <1>10, WaitSwapEffect
     DEF SameCall, screen, GoneFirst, SourceGoneFirst, Preparing, MergeUnderWay, SwapSeen, SwapExists
<1>11. CASE OpenInTarget
  <2>1. /\ at = "open" /\ at' \in {"pane_exit", "idle"} /\ UNCHANGED <<starting, call>>
        /\ \A s \in NvimServer : ed'[s].run = ed[s].run /\ ed'[s].pane = ed[s].pane
        /\ hist'.gaveUp = hist.gaveUp /\ hist'.mistyped = hist.mistyped
        /\ hist'.elsewhere = hist.elsewhere
        /\ hist'.overlap => hist.overlap \/ (QuitsSource /\ ed[call.src].run)
    BY <1>11, OpenEffect DEF SameProcess, NType
  <2>2. ~hist.overlap /\ ~hist.mistyped /\ (QuitsSource /\ call.swap => hist.gaveUp \/ ~ed[call.src].run)
    BY <2>1 DEF GoneFirst
  <2>3. SourceGoneFirst'
    BY <2>1, <2>2 DEF SourceGoneFirst
  <2>4. call.src \in NvimServer
    BY <2>1 DEF NType
  <2>5. UNCHANGED call
    BY <2>1
  <2>. QED
    BY <2>1, <2>2, <2>3, <2>4, <2>5 DEF GoneFirst, Preparing, MergeUnderWay, QuitsSource
<1>12. CASE CleanupPane
  BY <1>12, PaneExitEffect DEF NType, GoneFirst, SourceGoneFirst, Preparing, MergeUnderWay, At
<1>13. CASE SplitAppears
  BY <1>13, SplitAppearsEffect DEF SameCall, GoneFirst, SourceGoneFirst, QuitsSource
<1>14. CASE TargetStarts
  BY <1>14, TargetStartsEffect, NvimAssumption
     DEF SameCall, NType, CallRight, GoneFirst, SourceGoneFirst, QuitsSource
<1>15. CASE ServerExits
  BY <1>15, ServerExitsEffect DEF screen, NType, GoneFirst, SourceGoneFirst, QuitsSource
<1>16. CASE UserFocuses
  BY <1>16, FocusesEffect DEF NType, GoneFirst, SourceGoneFirst, QuitsSource
<1>17. CASE UserEdits
  BY <1>17, EditsEffect
     DEF Touched, SameHist, SameProcess, NType, GoneFirst, SourceGoneFirst, QuitsSource
<1>18. CASE UserSwitchesBuffer
  BY <1>18, SwitchesEffect
     DEF Touched, SameHist, SameProcess, NType, GoneFirst, SourceGoneFirst, QuitsSource
<1>19. CASE ReadSourcePane
  BY <1>19, ReadSourceEffect
     DEF ReadsOf, screen, NType, Apart, GoneFirst, SourceGoneFirst, QuitsSource, Preparing, MergeUnderWay
<1>20. CASE ReadFocusedPane
  <2>1. /\ at = "pane_read" /\ at' = "swap_read" /\ UNCHANGED <<ed, starting>> /\ call'.src = call.src
        /\ hist'.overlap = hist.overlap /\ hist'.mistyped = hist.mistyped
        /\ hist'.elsewhere = (call'.pane \notin {NoPane, ed[call.src].pane})
    BY <1>20, ReadPaneEffect DEF ReadsOf, screen
  <2>2. call.src \in NvimServer /\ ed[call.src].run /\ ~hist.overlap /\ ~hist.mistyped
    BY <2>1 DEF NType, Held, Holds, Live, Preparing, GoneFirst
  <2>3. ASSUME call'.pane # NoPane, ~hist'.elsewhere PROVE call'.pane = ed[call.src].pane
    BY <2>1, <2>3
  <2>. QED
    BY <2>1, <2>2, <2>3 DEF Apart, GoneFirst, SourceGoneFirst, Preparing, MergeUnderWay
<1>21. CASE ReadSwap
  BY <1>21, ReadSwapEffect
     DEF ReadsOf, screen, NType, Apart, GoneFirst, SourceGoneFirst, QuitsSource, Preparing, MergeUnderWay
<1>. QED
  BY <1>1, <1>2, <1>3, <1>4, <1>5, <1>6, <1>7, <1>8, <1>9, <1>10, <1>11, <1>12, <1>13, <1>14, <1>15,
     <1>16, <1>17, <1>18, <1>19, <1>20, <1>21 DEF NvimNext, TearOutStep, MergeStep, UserStep

\* One nvim in one pane satisfies it,
LEMMA NvimInitInv == NvimInit => NInv
<1>. SUFFICES ASSUME NvimInit PROVE NInv
  OBVIOUS
<1>. DEFINE e == [NoNvim EXCEPT !.run = TRUE, !.pane = FirstPane, !.wins = 2, !.open = File,
                                !.cur = CHOOSE f \in File : TRUE]
            cur == CHOOSE f \in File : TRUE
<1>1. cur \in File
  BY NvimAssumption
<1>2. e = [NoNvim EXCEPT !.run = TRUE, !.pane = FirstPane, !.wins = 2, !.open = File, !.cur = cur]
  OBVIOUS
<1>3. ed = [s \in NvimServer |-> IF s = FirstServer THEN e ELSE NoNvim]
  BY DEF NvimInit
<1>. HIDE DEF e, cur
<1>4. e \in Nvim /\ e.run /\ ~e.dying /\ e.pane = FirstPane /\ e.open = File /\ e.cur = cur /\ e.edited = {}
  BY <1>1, <1>2, NvimAssumption DEF NoNvim, Nvim
<1>5. \A s \in NvimServer : ed[s] = IF s = FirstServer THEN e ELSE NoNvim
  BY <1>3
<1>6. call.op = "none" /\ call \in NvimCall /\ call.looks = 0
  BY NoCallTyped DEF NvimInit, NoCall
<1>7. hist \in NvimHist /\ hist.lost = {} /\ ~hist.overlap /\ ~hist.mistyped
  BY DEF NvimInit, NoHist, NvimHist
<1>8. NType
  BY <1>3, <1>4, <1>5, <1>6, <1>7, NoNvimTyped, NvimAssumption, ZenonT(60) DEF NvimInit, NType, AtSteps
<1>9. Apart
  <2>1. \A s \in NvimServer : ed[s].run => s = FirstServer /\ ed[s].pane = FirstPane
    BY <1>4, <1>5, NoNvimTyped
  <2>2. \A s \in NvimServer : ed[s].edited = {} /\ ed[s].cur \in ed[s].open \cup {NoFile}
    BY <1>1, <1>4, <1>5, NoNvimTyped
  <2>3. focus = FirstPane /\ panes = {FirstPane} /\ starting = {}
    BY DEF NvimInit
  <2>. QED
    BY <2>1, <2>2, <2>3 DEF Apart
<1>10. CallRight /\ Held
  BY <1>6 DEF NvimInit, CallRight, Held, BufferHeld, Tearing, Preparing, MergeUnderWay, Quit
<1>11. Kept /\ GoneFirst
  BY <1>7 DEF NvimInit, Kept, CheckedEditsKept, GoneFirst, SourceGoneFirst, Tearing, Preparing, MergeUnderWay
<1>. QED
  BY <1>8, <1>9, <1>10, <1>11 DEF NInv

\* every step keeps it,
LEMMA NvimStepInv == NInv /\ [NvimNext]_nvimVars => NInv'
<1>1. ASSUME NInv, NvimNext PROVE NInv'
  BY <1>1, TypeStep, ApartStep, CallRightStep, HeldStep, KeptStep, GoneFirstStep DEF NInv
<1>2. ASSUME NInv, UNCHANGED nvimVars PROVE NInv'
  BY <1>2
     DEF NInv, nvimVars, NType, Apart, CallRight, Held, BufferHeld, Kept, CheckedEditsKept,
         GoneFirst, SourceGoneFirst, Holds, Live, QuitsSource
<1>. QED
  BY <1>1, <1>2

\* so it always holds.
LEMMA NvimInvariant == NvimSpec => []NInv
BY NvimInitInv, NvimStepInv, PTL DEF NvimSpec

\* A tear-out or merge refuses a buffer with unsaved changes, and what the source
\* drops afterwards is that buffer: unless somebody edits or switches buffers while the
\* call is under way, no unsaved edit of it is thrown away (ensure_mergeable_snapshot).
THEOREM NoCheckedEditIsLost == NvimSpec => []CheckedEditsKept
<1>1. NInv => CheckedEditsKept
  BY DEF NInv, Kept
<1>. QED
  BY <1>1, NvimInvariant, PTL

\* When a call has returned, with success or an error, some nvim that stays has the
\* buffer open, but for a merge whose target failed to open it after the quit of the
\* source (move_internal, merge_into_target).
THEOREM SomeNvimHoldsTheBuffer == NvimSpec => []BufferHeld
<1>1. NInv => BufferHeld
  BY DEF NInv, Held
<1>. QED
  BY <1>1, NvimInvariant, PTL

\* A merge with a swap file to watch has the target open the file, and types exit at an
\* editor, only after the source's process has ended or the last look at the swap file,
\* unless the pane was read when the user had left the source (prepare_merge,
\* wait_for_server_exit, wait_for_swap_clear).
THEOREM SourceEndsBeforeTargetOpens == NvimSpec => []SourceGoneFirst
<1>1. NInv => SourceGoneFirst
  BY DEF NInv, GoneFirst
<1>. QED
  BY <1>1, NvimInvariant, PTL

-----------------------------------------------------------------------------
(***************************************************************************)
(* tmux: the panes of its windows.  SettleEffect tells the server after    *)
(* any command: every pane that is left is held by a session, a session    *)
(* lives on exactly if its group still has a window, and no pane was out   *)
(* of focus longer than before.  Each command then only has to say which   *)
(* panes, windows and sessions it hands to Settle.  The inductive          *)
(* invariant TInv adds to the types that windows are held, that a group's  *)
(* first session is in it until a user ends one (Led), and that the cache  *)
(* is one reading of what was focused at most its age ago (CacheCounted).  *)
(***************************************************************************)

\* The types.  A session that lives shows a window.
SessionName == {MainSession, OtherSession, NoSession}
SessionRec == [live : BOOLEAN, group : SessionName, cur : Window \cup {NoWindow}, client : BOOLEAN]
TmuxCmd == [op : {"none", "focus", "swap", "tear", "merge"}, src : Session \cup {NoSession},
            tgt : Session \cup {NoSession}, pane : TPane \cup {NoTPane},
            new : Window \cup {NoWindow}, meta : Session \cup {NoSession}]
CacheRec == [age : Nat, of : [Session -> TPane \cup {NoTPane}]]
Past == [stale : BOOLEAN, closed : BOOLEAN, ended : SUBSET TPane]

ServerType ==
  /\ win \in [TPane -> Window \cup {NoWindow}]
  /\ group \in [Window -> SessionName]
  /\ act \in [Window -> TPane \cup {NoTPane}]
  /\ sess \in [Session -> SessionRec]
  /\ gone \in [Session -> [TPane -> Nat]]
  /\ \A s \in Session : sess[s].live => sess[s].cur \in Window
\* A process that is past its first read has a client and a pane.
CommandType ==
  /\ cmd \in TmuxCmd
  /\ doing \in {"idle", "read", "focus", "swap", "reselect", "tear", "session", "attach", "merge",
               "target", "kill"}
  /\ doing # "idle" => cmd.src \in Session /\ cmd.op # "none"
  /\ doing \notin {"idle", "read"} => cmd.pane \in TPane
  /\ doing \in {"session", "attach"} => cmd.new \in Window
  /\ doing \in {"attach", "target", "kill"} => cmd.tgt \in Session
TType == ServerType /\ cache \subseteq CacheRec /\ past \in Past /\ CommandType

\* A window that has panes is held by a session.
WindowsHeld == \A p \in TPane : win[p] # NoWindow => Holders(group[win[p]], sess) # {}

\* The session that a group is named after is one of the group.
Led(ss) == \A s \in Session : ss[s].live =>
             ss[s].group \in Session /\ ss[ss[s].group].live /\ ss[ss[s].group].group = ss[s].group

\* What a client looks at has just been looked at.
FocusCounted == \A s \in Session : Focused(s) # NoTPane => gone[s][Focused(s)] = 0

\* The cache is one reading, and what it names was looked at when it was read.
CacheCounted == /\ \A c, d \in cache : c = d
                /\ \A c \in cache, s \in Session : c.of[s] # NoTPane => gone[s][c.of[s]] <= c.age

\* The inductive invariant.
TInv == /\ TType /\ WindowsHeld /\ FocusCounted /\ CacheCounted
        /\ ~past.closed => Led(sess)
        /\ PanesSurvive /\ PaneReadIsRecent

\* The server after a command, or a tick of the clock.
LEMMA SettleEffect ==
  ASSUME NEW w \in [TPane -> Window \cup {NoWindow}], NEW g \in [Window -> SessionName],
         NEW a \in [Window -> TPane \cup {NoTPane}], NEW ss \in [Session -> SessionRec],
         NEW tick \in BOOLEAN, gone \in [Session -> [TPane -> Nat]],
         Settle(w, g, a, ss, tick)
  PROVE  /\ ServerType' /\ WindowsHeld' /\ FocusCounted'
         /\ \A s \in Session, p \in TPane : gone'[s][p] <= gone[s][p] + (IF tick THEN 1 ELSE 0)
         /\ Led(ss) => Led(sess')
         /\ \A p \in TPane : w[p] # NoWindow /\ win'[p] = NoWindow => Holders(g[w[p]], ss) = {}
<1>. DEFINE kept == [p \in TPane |-> IF w[p] # NoWindow /\ Holders(g[w[p]], ss) # {} THEN w[p] ELSE NoWindow]
            inw(x) == {p \in TPane : kept[p] = x}
            held(s) == {x \in Window : g[x] = ss[s].group /\ inw(x) # {}}
            cur(s) == IF ss[s].cur \in held(s) THEN ss[s].cur ELSE CHOOSE x \in held(s) : TRUE
<1>1. /\ win' = kept
      /\ group' = [x \in Window |-> IF inw(x) = {} THEN NoSession ELSE g[x]]
      /\ act' = [x \in Window |-> IF a[x] \in inw(x) THEN a[x]
                                  ELSE IF inw(x) = {} THEN NoTPane ELSE CHOOSE p \in inw(x) : TRUE]
      /\ sess' = [s \in Session |-> IF ~ss[s].live \/ held(s) = {} THEN NoSess ELSE [ss[s] EXCEPT !.cur = cur(s)]]
      /\ gone' = [s \in Session |-> [p \in TPane |->
                    IF p = Focused(s)' THEN 0
                    ELSE IF tick /\ gone[s][p] <= Ttl THEN gone[s][p] + 1 ELSE gone[s][p]]]
  BY DEF Settle
<1>2. kept \in [TPane -> Window \cup {NoWindow}]
  OBVIOUS
<1>3. \A p \in TPane : kept[p] # NoWindow => kept[p] = w[p] /\ kept[p] \in Window /\ Holders(g[kept[p]], ss) # {}
  OBVIOUS
<1>4. \A p \in TPane : w[p] # NoWindow /\ kept[p] = NoWindow => Holders(g[w[p]], ss) = {}
  OBVIOUS
<1>5. \A s \in Session : held(s) # {} => cur(s) \in held(s)
  OBVIOUS
<1>6. \A x \in Window : inw(x) \subseteq TPane
  OBVIOUS
<1>7. \A s \in Session : held(s) \subseteq Window
  OBVIOUS
<1>8. \A s, t \in Session : ss[s].group = ss[t].group => held(s) = held(t)
  OBVIOUS
<1>9. \A p \in TPane, s \in Session : kept[p] # NoWindow /\ g[kept[p]] = ss[s].group => kept[p] \in held(s)
  BY <1>3
<1>10. \A p \in TPane : kept[p] # NoWindow => inw(kept[p]) # {}
  OBVIOUS
<1>. HIDE DEF kept, inw, held, cur
<1>11. NoSess \in SessionRec /\ ~NoSess.live
  BY DEF NoSess, SessionRec, SessionName
<1>12. ASSUME NEW s \in Session
       PROVE  /\ sess'[s] \in SessionRec
              /\ sess'[s].live <=> ss[s].live /\ held(s) # {}
              /\ sess'[s].live => sess'[s].group = ss[s].group /\ sess'[s].cur \in Window
  <2>1. CASE ~ss[s].live \/ held(s) = {}
    BY <1>1, <1>11, <2>1
  <2>2. CASE ss[s].live /\ held(s) # {}
    <3>1. sess'[s] = [ss[s] EXCEPT !.cur = cur(s)] /\ cur(s) \in Window /\ ss[s] \in SessionRec
      BY <1>1, <1>5, <1>7, <2>2
    <3>. QED
      BY <2>2, <3>1 DEF SessionRec
  <2>. QED
    BY <2>1, <2>2
<1>13. \A x \in Window : act'[x] \in TPane \cup {NoTPane}
  BY <1>1, <1>6
<1>14. \A s \in Session : Focused(s)' \in TPane \cup {NoTPane}
  BY <1>12, <1>13 DEF Focused, Shown
<1>15. \A s \in Session, p \in TPane :
         /\ gone'[s][p] \in Nat /\ gone'[s][p] <= gone[s][p] + (IF tick THEN 1 ELSE 0)
         /\ p = Focused(s)' => gone'[s][p] = 0
  BY <1>1
<1>16. /\ group' \in [Window -> SessionName] /\ act' \in [Window -> TPane \cup {NoTPane}]
       /\ sess' \in [Session -> SessionRec] /\ gone' \in [Session -> [TPane -> Nat]]
  BY <1>1, <1>12, <1>13, <1>15 DEF SessionName
<1>17. ServerType'
  BY <1>1, <1>2, <1>12, <1>16 DEF ServerType
<1>18. FocusCounted'
  BY <1>14, <1>15 DEF FocusCounted
<1>19. WindowsHeld'
  <2>1. ASSUME NEW p \in TPane, kept[p] # NoWindow
        PROVE  Holders(group'[kept[p]], sess') # {}
    <3>1. kept[p] \in Window /\ Holders(g[kept[p]], ss) # {}
      BY <1>3, <2>1
    <3>2. PICK s \in Session : ss[s].live /\ ss[s].group = g[kept[p]]
      BY <3>1 DEF Holders
    <3>3. held(s) # {} /\ group'[kept[p]] = g[kept[p]]
      BY <1>1, <1>9, <1>10, <2>1, <3>1, <3>2
    <3>4. sess'[s].live /\ sess'[s].group = group'[kept[p]]
      BY <1>12, <3>2, <3>3
    <3>. QED
      BY <3>4 DEF Holders
  <2>. QED
    BY <1>1, <2>1 DEF WindowsHeld
<1>20. Led(ss) => Led(sess')
  BY <1>8, <1>12 DEF Led
<1>. QED
  BY <1>1, <1>4, <1>15, <1>17, <1>18, <1>19, <1>20

\* What a step of the server keeps: a step that is not the clock's ages nothing.
ServerKeeps == /\ ServerType' /\ WindowsHeld' /\ FocusCounted'
               /\ \A s \in Session, p \in TPane : gone'[s][p] <= gone[s][p]

\* A server that is left alone keeps it all.
LEMMA ServerStays == ASSUME TInv, UNCHANGED server PROVE ServerKeeps /\ sess' = sess
BY DEF TInv, TType, ServerType, WindowsHeld, FocusCounted, Focused, Shown, Holders, server,
   ServerKeeps

\* A command that is settled keeps it, and its sessions' groups if it left them led.
LEMMA SettleKeeps ==
  ASSUME NEW w \in [TPane -> Window \cup {NoWindow}], NEW g \in [Window -> SessionName],
         NEW a \in [Window -> TPane \cup {NoTPane}], NEW ss \in [Session -> SessionRec],
         gone \in [Session -> [TPane -> Nat]], Settle(w, g, a, ss, FALSE)
  PROVE  /\ ServerKeeps /\ (Led(ss) => Led(sess'))
         /\ \A p \in TPane : w[p] # NoWindow /\ win'[p] = NoWindow => Holders(g[w[p]], ss) = {}
<1>1. \A s \in Session, p \in TPane : gone'[s][p] <= gone[s][p] + (IF FALSE THEN 1 ELSE 0)
  BY SettleEffect
<1>2. \A s \in Session, p \in TPane : gone'[s][p] <= gone[s][p]
  BY <1>1
<1>. QED
  BY <1>2, SettleEffect DEF ServerKeeps

\* The cache after the server changed without the clock, or was read.
LEMMA CacheStays ==
  ASSUME TInv, ServerKeeps, UNCHANGED cache
  PROVE  cache' \subseteq CacheRec /\ CacheCounted'
<1>1. ASSUME NEW c \in cache, NEW s \in Session, c.of[s] # NoTPane
      PROVE  gone'[s][c.of[s]] <= c.age
  <2>1. c.of[s] \in TPane /\ c.age \in Nat
    BY <1>1 DEF TInv, TType, CacheRec
  <2>2. gone'[s][c.of[s]] \in Nat /\ gone[s][c.of[s]] \in Nat /\ gone[s][c.of[s]] <= c.age
    BY <1>1, <2>1 DEF TInv, TType, CacheCounted, ServerKeeps, ServerType
  <2>3. gone'[s][c.of[s]] <= gone[s][c.of[s]]
    BY <2>1 DEF ServerKeeps
  <2>. QED
    BY <2>1, <2>2, <2>3
<1>. QED
  BY <1>1 DEF TInv, TType, CacheCounted

\* A client has a pane in focus, or none.
LEMMA FocusTyped == ASSUME ServerType, NEW s \in Session PROVE Focused(s) \in TPane \cup {NoTPane}
BY DEF ServerType, Focused, Shown

\* A reading of the cache: what it names was the focused pane within the last Ttl ticks.
LEMMA ReadEffect ==
  ASSUME TInv, NEW s \in Session, CacheRead(s)
  PROVE  /\ cache' \subseteq CacheRec
         /\ \A c, d \in cache' : c = d
         /\ \A c \in cache', t \in Session : c.of[t] # NoTPane => gone[t][c.of[t]] <= c.age
         /\ PaneRead(s) \in TPane \cup {NoTPane}
         /\ ~ReadIsStale(s)
<1>1. CASE UNCHANGED cache /\ \E c \in cache : Fresh(c)
  <2>1. PICK c \in cache : Fresh(c)
    BY <1>1
  <2>2. (CHOOSE d \in cache' : TRUE) = c
    BY <1>1, <2>1 DEF TInv, CacheCounted
  <2>3. c \in CacheRec /\ (c.of[s] # NoTPane => gone[s][c.of[s]] <= c.age)
    BY <2>1 DEF TInv, TType, CacheCounted
  <2>4. c.of[s] \in TPane \cup {NoTPane} /\ c.age \in Nat /\ c.age <= Ttl
    BY <2>1, <2>3 DEF CacheRec, Fresh
  <2>5. c.of[s] # NoTPane => ~(gone[s][c.of[s]] > Ttl)
    BY <2>3, <2>4, TmuxAssumption DEF TInv, TType, ServerType
  <2>6. PaneRead(s) = c.of[s]
    BY <2>2 DEF PaneRead
  <2>. QED
    BY <1>1, <2>4, <2>5, <2>6 DEF TInv, TType, CacheCounted, ReadIsStale
<1>2. ASSUME NEW f \in [Session -> TPane \cup {NoTPane}], cache' = {[age |-> 0, of |-> f]},
             \A t \in Session : f[t] # NoTPane => gone[t][f[t]] = 0
      PROVE  /\ cache' \subseteq CacheRec
             /\ \A c, d \in cache' : c = d
             /\ \A c \in cache', t \in Session : c.of[t] # NoTPane => gone[t][c.of[t]] <= c.age
             /\ PaneRead(s) \in TPane \cup {NoTPane}
             /\ ~ReadIsStale(s)
  <2>1. PICK c : c = [age |-> 0, of |-> f]
    OBVIOUS
  <2>2. PaneRead(s) = f[s]
    <3>1. (CHOOSE d \in cache' : TRUE) = c /\ c.of = f
      BY <1>2, <2>1
    <3>. QED
      BY <3>1 DEF PaneRead
  <2>3. f[s] # NoTPane => ~(gone[s][f[s]] > Ttl)
    BY <1>2, TmuxAssumption
  <2>4. [age |-> 0, of |-> f] \in CacheRec
    BY DEF CacheRec
  <2>5. \A t \in Session : f[t] # NoTPane => gone[t][f[t]] <= 0
    BY <1>2
  <2>. QED
    BY <1>2, <2>2, <2>3, <2>4, <2>5 DEF ReadIsStale
<1>3. CASE cache' = {[age |-> 0, of |-> [t \in Session |-> Focused(t)]]}
  <2>1. [t \in Session |-> Focused(t)] \in [Session -> TPane \cup {NoTPane}]
    BY FocusTyped DEF TInv, TType
  <2>. QED
    BY <1>2, <1>3, <2>1 DEF TInv, FocusCounted
<1>4. CASE cache' = {[age |-> 0, of |-> [t \in Session |-> NoTPane]]}
  BY <1>2, <1>4
<1>. QED
  BY <1>1, <1>3, <1>4 DEF CacheRead

\* A step of the server by a command that leaves the cache and the history alone.
LEMMA CommandKeeps ==
  ASSUME TInv, ServerKeeps, Led(sess) => Led(sess'), UNCHANGED <<cache, past>>, CommandType'
  PROVE  TInv'
BY CacheStays DEF TInv, TType, ServerKeeps, PanesSurvive, PaneReadIsRecent

\* A server that is left alone keeps its groups led.
LEMMA StayedLed == ASSUME TInv, UNCHANGED server PROVE ServerKeeps /\ (Led(sess) => Led(sess'))
BY ServerStays

\* The types, for the lemmas about Settle.
LEMMA CommandRecord ==
  ASSUME TInv
  PROVE  /\ win \in [TPane -> Window \cup {NoWindow}] /\ group \in [Window -> SessionName]
         /\ act \in [Window -> TPane \cup {NoTPane}] /\ sess \in [Session -> SessionRec]
         /\ gone \in [Session -> [TPane -> Nat]]
BY DEF TInv, TType, ServerType

\* Selecting a pane moves no session.
LEMMA SelectKeeps ==
  ASSUME TInv, NEW x \in Window, NEW p \in TPane, Settle(win, group, [act EXCEPT ![x] = p], sess, FALSE)
  PROVE  ServerKeeps /\ (Led(sess) => Led(sess'))
<1>1. [act EXCEPT ![x] = p] \in [Window -> TPane \cup {NoTPane}]
  BY CommandRecord
<1>. QED
  BY <1>1, CommandRecord, SettleKeeps

\* Nor does showing another window of the group.
LEMMA ShowKeeps ==
  ASSUME TInv, NEW w \in [TPane -> Window \cup {NoWindow}], NEW a \in [Window -> TPane \cup {NoTPane}],
         NEW s \in Session, NEW r \in SessionRec, r.live = sess[s].live, r.group = sess[s].group,
         Settle(w, group, a, [sess EXCEPT ![s] = r], FALSE)
  PROVE  ServerKeeps /\ (Led(sess) => Led(sess'))
<1>. DEFINE ss == [sess EXCEPT ![s] = r]
<1>1. ss \in [Session -> SessionRec] /\ \A t \in Session : ss[t].live = sess[t].live /\ ss[t].group = sess[t].group
  BY CommandRecord
<1>. HIDE DEF ss
<1>2. Led(sess) => Led(ss)
  BY <1>1 DEF Led
<1>. QED
  BY <1>1, <1>2, CommandRecord, SettleKeeps DEF ss

\* A new process has an empty cache and a history of its own.
LEMMA BeginStep == ASSUME TInv, Begin PROVE TInv'
<1>1. PICK s \in Session, op \in {"focus", "swap", "tear", "merge"} : Begin!(s, op)
  BY DEF Begin
<1>2. ServerKeeps /\ sess' = sess
  BY <1>1, ServerStays
<1>3. cache' = {}
  BY <1>1 DEF CacheAtStart
<1>4. past' \in Past /\ past'.closed = past.closed /\ past'.ended = past.ended /\ ~past'.stale
  BY <1>1 DEF NoPast, Past, TInv, TType
<1>5. cmd' = [op |-> op, src |-> s, tgt |-> NoSession, pane |-> NoTPane, new |-> NoWindow, meta |-> NoSession]
  BY <1>1 DEF NoCmd
<1>6. CommandType'
  BY <1>1, <1>5 DEF CommandType, TmuxCmd
<1>. QED
  BY <1>2, <1>3, <1>4, <1>6 DEF TInv, TType, ServerKeeps, CacheCounted, PanesSurvive,
     PaneReadIsRecent

\* A read with the server as it is.
LEMMA ReadKeeps ==
  ASSUME TInv, NEW s \in Session, CacheRead(s), UNCHANGED server
  PROVE  ServerKeeps /\ sess' = sess /\ cache' \subseteq CacheRec /\ CacheCounted'
BY ReadEffect, ServerStays DEF CacheCounted, server

\* The first read finds a pane that was in focus lately, or the process ends.
LEMMA ReadSourceStep == ASSUME TInv, ReadSource PROVE TInv'
<1>1. cmd.src \in Session /\ CacheRead(cmd.src) /\ UNCHANGED server /\ cmd.op # "none"
  BY DEF ReadSource, TInv, TType, CommandType
<1>2. PaneRead(cmd.src) \in TPane \cup {NoTPane} /\ ~ReadIsStale(cmd.src)
  BY <1>1, ReadEffect
<1>3. past' = [past EXCEPT !.stale = FALSE]
  <2>1. ReadIsStale(cmd.src) = FALSE
    BY <1>2 DEF ReadIsStale
  <2>. QED
    BY <2>1, Zenon DEF ReadSource
<1>4. past' \in Past /\ past'.closed = past.closed /\ past'.ended = past.ended /\ ~past'.stale
  BY <1>3 DEF Past, TInv, TType
<1>5. CommandType'
  <2>. DEFINE p == PaneRead(cmd.src)
  <2>. HIDE DEF p
  <2>1. cmd' = [cmd EXCEPT !.pane = p] /\ doing' = (IF p = NoTPane THEN "idle" ELSE cmd.op)
    BY DEF ReadSource, p
  <2>2. p \in TPane \cup {NoTPane}
    BY <1>2 DEF p
  <2>3. cmd \in TmuxCmd
    BY DEF TInv, TType, CommandType
  <2>4. cmd' \in TmuxCmd /\ cmd'.src = cmd.src /\ cmd'.pane = p /\ cmd'.op = cmd.op
    BY <2>1, <2>2, <2>3 DEF TmuxCmd
  <2>5. doing' \in {"idle", "focus", "swap", "tear", "merge"} /\ (doing' # "idle" => p \in TPane)
    BY <1>1, <2>1, <2>2, <2>3 DEF TmuxCmd
  <2>. QED
    BY <1>1, <2>4, <2>5 DEF CommandType
<1>. QED
  BY <1>1, <1>4, <1>5, ReadKeeps DEF TInv, TType, ServerKeeps, PanesSurvive, PaneReadIsRecent

\* A command that ends, or selects again, is well typed.
LEMMA SameCommand ==
  ASSUME TInv, UNCHANGED cmd, doing' \in {doing, "idle"} \/ (doing' = "reselect" /\ doing = "swap")
  PROVE  CommandType'
BY DEF TInv, TType, CommandType

\* A neighbour is a pane of a window.
LEMMA NeighborWindow == ASSUME TInv, NEW p \in Neighbors PROVE p \in TPane /\ win[p] \in Window
BY CommandRecord DEF Neighbors, PanesIn

\* Focus and swap select a pane.
LEMMA SelectStep == ASSUME TInv, SelectPane \/ SwapPane \/ Reselect PROVE TInv'
<1>1. CommandType' /\ UNCHANGED <<cache, past>>
  BY SameCommand DEF SelectPane, SwapPane, Reselect, Ends
<1>2. CASE UNCHANGED server
  BY <1>1, <1>2, StayedLed, CommandKeeps
<1>3. CASE \E p \in Neighbors : Settle(win, group, [act EXCEPT ![win[p]] = p], sess, FALSE)
  BY <1>1, <1>3, NeighborWindow, SelectKeeps, CommandKeeps
<1>4. CASE Reselect /\ win[cmd.pane] # NoWindow
           /\ Settle(win, group, [act EXCEPT ![win[cmd.pane]] = cmd.pane], sess, FALSE)
  <2>1. cmd.pane \in TPane /\ win[cmd.pane] \in Window
    BY <1>4, CommandRecord DEF Reselect, TInv, TType, CommandType
  <2>. QED
    BY <1>1, <1>4, <2>1, SelectKeeps, CommandKeeps
<1>. QED
  BY <1>2, <1>3, <1>4 DEF SelectPane, SwapPane, Reselect

\* A tear-out's pane gets a window in the group of its own,
LEMMA BreakStep == ASSUME TInv, BreakPane PROVE TInv'
<1>1. cmd.pane \in TPane /\ cmd \in TmuxCmd /\ cmd.src \in Session /\ cmd.op # "none" /\ UNCHANGED <<cache, past>>
  BY DEF BreakPane, TInv, TType, CommandType
<1>2. CASE UNCHANGED <<server, cmd>> /\ Ends
  BY <1>1, <1>2, StayedLed, CommandKeeps, SameCommand DEF Ends
<1>3. ASSUME NEW x \in Window, win[cmd.pane] # NoWindow,
             Settle([win EXCEPT ![cmd.pane] = x], [group EXCEPT ![x] = group[win[cmd.pane]]],
                    [act EXCEPT ![x] = cmd.pane], sess, FALSE),
             cmd' = [cmd EXCEPT !.new = x], doing' = "session"
      PROVE  TInv'
  <2>1. /\ [win EXCEPT ![cmd.pane] = x] \in [TPane -> Window \cup {NoWindow}]
        /\ [group EXCEPT ![x] = group[win[cmd.pane]]] \in [Window -> SessionName]
        /\ [act EXCEPT ![x] = cmd.pane] \in [Window -> TPane \cup {NoTPane}]
    BY <1>1, <1>3, CommandRecord
  <2>2. ServerKeeps /\ (Led(sess) => Led(sess'))
    BY <1>3, <2>1, CommandRecord, SettleKeeps
  <2>3. CommandType'
    BY <1>1, <1>3 DEF CommandType, TmuxCmd
  <2>. QED
    BY <1>1, <2>2, <2>3, CommandKeeps
<1>. QED
  BY <1>2, <1>3 DEF BreakPane

\* a session in that group,
LEMMA NewSessionStep == ASSUME TInv, NewSession PROVE TInv'
<1>1. /\ cmd.new \in Window /\ cmd.pane \in TPane /\ cmd \in TmuxCmd /\ cmd.src \in Session /\ cmd.op # "none"
      /\ UNCHANGED <<cache, past>>
  BY DEF NewSession, TInv, TType, CommandType
<1>2. CASE UNCHANGED <<server, cmd>> /\ Ends
  BY <1>1, <1>2, StayedLed, CommandKeeps, SameCommand DEF Ends
<1>3. ASSUME NEW d \in DetachedSession, NEW s \in Holders(group[cmd.new], sess),
             Settle(win, group, act, [sess EXCEPT ![d] = [live |-> TRUE, group |-> group[cmd.new],
                                                          cur |-> sess[s].cur, client |-> FALSE]], FALSE),
             cmd' = [cmd EXCEPT !.tgt = d], doing' = "attach"
      PROVE  TInv'
  <2>. DEFINE r == [live |-> TRUE, group |-> group[cmd.new], cur |-> sess[s].cur, client |-> FALSE]
              ss == [sess EXCEPT ![d] = r]
  <2>1. s \in Session /\ sess[s].live /\ sess[s].group = group[cmd.new] /\ d \in Session
        /\ d \notin {MainSession, OtherSession}
    BY TmuxAssumption DEF Holders
  <2>2. sess[s] \in SessionRec /\ sess[s].group \in SessionName /\ sess[s].cur \in Window \cup {NoWindow}
    BY <2>1, CommandRecord DEF SessionRec
  <2>3. r \in SessionRec /\ r.live /\ r.group = sess[s].group
    BY <2>1, <2>2 DEF SessionRec
  <2>. HIDE DEF r
  <2>4. ss \in [Session -> SessionRec] /\ ss[d] = r /\ \A t \in Session \ {d} : ss[t] = sess[t]
    BY <2>1, <2>3, CommandRecord
  <2>. HIDE DEF ss
  <2>5. Led(sess) => Led(ss)
    <3>1. \A t \in Session : sess[t].group \in SessionName
      BY CommandRecord DEF SessionRec
    <3>. QED
      BY <2>1, <2>3, <2>4, <3>1, TmuxAssumption DEF Led, SessionName
  <2>6. ServerKeeps /\ (Led(sess) => Led(sess'))
    BY <1>3, <2>4, <2>5, CommandRecord, SettleKeeps DEF ss, r
  <2>7. CommandType'
    BY <1>1, <1>3, <2>1 DEF CommandType, TmuxCmd
  <2>. QED
    BY <1>1, <2>6, <2>7, CommandKeeps
<1>. QED
  BY <1>2, <1>3 DEF NewSession

\* and a client.
LEMMA AttachStep == ASSUME TInv, AttachClient PROVE TInv'
<1>1. cmd.new \in Window /\ cmd.tgt \in Session /\ UNCHANGED <<cache, past>> /\ CommandType'
  BY SameCommand DEF AttachClient, TInv, TType, CommandType, Ends
<1>2. CASE UNCHANGED server
  BY <1>1, <1>2, StayedLed, CommandKeeps
<1>3. CASE Settle(win, group, act, [sess EXCEPT ![cmd.tgt] = Attached(@, cmd.new)], FALSE)
  <2>. DEFINE r == Attached(sess[cmd.tgt], cmd.new)
  <2>1. r \in SessionRec /\ r.live = sess[cmd.tgt].live /\ r.group = sess[cmd.tgt].group
    BY <1>1, CommandRecord DEF SessionRec, Attached
  <2>2. [sess EXCEPT ![cmd.tgt] = Attached(@, cmd.new)] = [sess EXCEPT ![cmd.tgt] = r]
    BY Zenon
  <2>. HIDE DEF r
  <2>3. ServerKeeps /\ (Led(sess) => Led(sess'))
    BY <1>1, <1>3, <2>1, <2>2, CommandRecord, ShowKeeps
  <2>. QED
    BY <1>1, <2>3, CommandKeeps
<1>. QED
  BY <1>2, <1>3 DEF AttachClient

\* A read, and then the server changed without the clock.
LEMMA ReadThenKeeps ==
  ASSUME TInv, NEW s \in Session, CacheRead(s), ServerKeeps
  PROVE  cache' \subseteq CacheRec /\ CacheCounted'
<1>1. ASSUME NEW c \in cache', NEW t \in Session, c.of[t] # NoTPane
      PROVE  gone'[t][c.of[t]] <= c.age
  <2>1. c \in CacheRec /\ gone[t][c.of[t]] <= c.age
    BY <1>1, ReadEffect
  <2>2. c.of[t] \in TPane /\ c.age \in Nat
    BY <1>1, <2>1 DEF CacheRec
  <2>3. gone'[t][c.of[t]] \in Nat /\ gone[t][c.of[t]] \in Nat /\ gone'[t][c.of[t]] <= gone[t][c.of[t]]
    BY <2>2, CommandRecord DEF ServerKeeps, ServerType
  <2>. QED
    BY <2>1, <2>2, <2>3
<1>. QED
  BY <1>1, ReadEffect DEF CacheCounted

\* A merge names the session it will kill, and its target.
LEMMA PrepareStep == ASSUME TInv, PrepareSource PROVE TInv'
<1>1. /\ cmd.pane \in TPane /\ cmd \in TmuxCmd /\ cmd.src \in Session /\ cmd.op # "none"
      /\ UNCHANGED <<server, cache, past>>
  BY DEF PrepareSource, TInv, TType, CommandType
<1>2. CommandType'
  <2>1. CASE UNCHANGED cmd /\ Ends
    BY <2>1, SameCommand DEF Ends
  <2>2. ASSUME NEW s \in Session, NEW t \in Session, cmd' = [cmd EXCEPT !.meta = s, !.tgt = t], doing' = "target"
        PROVE  CommandType'
    BY <1>1, <2>2 DEF CommandType, TmuxCmd
  <2>. QED
    BY <2>1, <2>2 DEF PrepareSource, Holders
<1>. QED
  BY <1>1, <1>2, StayedLed, CommandKeeps

\* The pane comes into the window of the target's pane; the old window may go.
LEMMA JoinStep == ASSUME TInv, JoinPane PROVE TInv'
<1>1. /\ cmd.tgt \in Session /\ cmd.pane \in TPane /\ cmd \in TmuxCmd /\ cmd.src \in Session /\ cmd.op # "none"
      /\ UNCHANGED cmd /\ CacheRead(cmd.tgt)
      /\ doing' \in {"kill", "idle"}
  BY DEF JoinPane, TInv, TType, CommandType, Ends
<1>. DEFINE c == cmd.tgt
            p == PaneRead(c)
            x == win[p]
            shows == IF group[x] = sess[c].group THEN x ELSE sess[c].cur
<1>2. p \in TPane \cup {NoTPane} /\ ~ReadIsStale(c)
  BY <1>1, ReadEffect
<1>3. past' = [past EXCEPT !.stale = past.stale]
  <2>1. (past.stale \/ ReadIsStale(c)) = past.stale
    BY <1>2 DEF TInv, TType, Past
  <2>2. past' = [past EXCEPT !.stale = past.stale \/ ReadIsStale(c)]
    BY DEF JoinPane
  <2>. QED
    BY <2>1, <2>2, Zenon
<1>4. past' = past
  BY <1>3 DEF TInv, TType, Past
<1>5. CommandType'
  BY <1>1 DEF CommandType
<1>6. CASE UNCHANGED server
  <2>1. ServerKeeps /\ sess' = sess /\ cache' \subseteq CacheRec /\ CacheCounted'
    BY <1>1, <1>6, ReadKeeps
  <2>. QED
    BY <1>4, <1>5, <2>1 DEF TInv, TType, ServerKeeps, PanesSurvive, PaneReadIsRecent
<1>7. CASE /\ Joinable(p)
           /\ Settle([win EXCEPT ![cmd.pane] = x], group, [act EXCEPT ![x] = cmd.pane],
                     [sess EXCEPT ![c].cur = shows], FALSE)
  <2>1. p \in TPane /\ x \in Window
    BY <1>2, <1>7, CommandRecord DEF Joinable
  <2>2. [win EXCEPT ![cmd.pane] = x] \in [TPane -> Window \cup {NoWindow}]
        /\ [act EXCEPT ![x] = cmd.pane] \in [Window -> TPane \cup {NoTPane}]
    BY <1>1, <2>1, CommandRecord
  <2>. DEFINE r == [sess[c] EXCEPT !.cur = shows]
  <2>3. r \in SessionRec /\ r.live = sess[c].live /\ r.group = sess[c].group
    BY <1>1, <2>1, CommandRecord DEF SessionRec
  <2>4. [sess EXCEPT ![c].cur = shows] = [sess EXCEPT ![c] = r]
    BY <1>1, CommandRecord DEF SessionRec
  <2>. HIDE DEF r, shows, x, p
  <2>5. ServerKeeps /\ (Led(sess) => Led(sess'))
    BY <1>1, <1>7, <2>2, <2>3, <2>4, ShowKeeps
  <2>6. cache' \subseteq CacheRec /\ CacheCounted'
    BY <1>1, <2>5, ReadThenKeeps
  <2>. QED
    BY <1>4, <1>5, <2>5, <2>6 DEF TInv, TType, ServerKeeps, PanesSurvive, PaneReadIsRecent
<1>. QED
  BY <1>6, <1>7 DEF JoinPane

\* The session killed is no group's first, so that no pane goes with it.
LEMMA KillStep == ASSUME TInv, KillSession PROVE TInv'
<1>1. UNCHANGED <<cache, cmd>> /\ CommandType' /\ cmd \in TmuxCmd
  BY SameCommand DEF KillSession, Ends, TInv, TType, CommandType
<1>2. CASE UNCHANGED <<server, past>>
  BY <1>1, <1>2, StayedLed, CommandKeeps
<1>3. CASE /\ KillsDetached
           /\ Settle(win, group, act, [sess EXCEPT ![cmd.meta] = NoSess], FALSE)
           /\ past' = [past EXCEPT !.ended = @ \cup {p \in TPane : win[p] # NoWindow /\ win'[p] = NoWindow}]
  <2>. DEFINE m == cmd.meta
              ss == [sess EXCEPT ![m] = NoSess]
  <2>1. m \in Session /\ m \notin {MainSession, OtherSession}
    BY <1>3, TmuxAssumption DEF KillsDetached
  <2>2. ss \in [Session -> SessionRec] /\ ~ss[m].live /\ \A t \in Session \ {m} : ss[t] = sess[t]
    BY <2>1, CommandRecord DEF NoSess, SessionRec, SessionName
  <2>. HIDE DEF ss, m
  <2>3. Settle(win, group, act, ss, FALSE)
    BY <1>3 DEF ss, m
  <2>4. \A t \in Session : sess[t].group \in SessionName
    BY CommandRecord DEF SessionRec
  <2>5. Led(sess) => Led(ss)
    BY <2>1, <2>2, <2>4, TmuxAssumption DEF Led, SessionName
  <2>6. /\ ServerKeeps /\ (Led(sess) => Led(sess'))
        /\ \A p \in TPane : win[p] # NoWindow /\ win'[p] = NoWindow => Holders(group[win[p]], ss) = {}
    BY <2>2, <2>3, <2>5, CommandRecord, SettleKeeps
  <2>7. ASSUME Led(sess), NEW p \in TPane, win[p] # NoWindow PROVE Holders(group[win[p]], ss) # {}
    <3>1. PICK s \in Session : sess[s].live /\ sess[s].group = group[win[p]]
      BY <2>7 DEF TInv, WindowsHeld, Holders
    <3>2. sess[s].group \in Session /\ sess[sess[s].group].live
          /\ sess[sess[s].group].group = sess[s].group /\ sess[s].group # m
      BY <2>1, <2>4, <2>7, <3>1, TmuxAssumption DEF Led, SessionName
    <3>. QED
      BY <2>2, <3>1, <3>2 DEF Holders
  <2>. DEFINE lost == {p \in TPane : win[p] # NoWindow /\ win'[p] = NoWindow}
  <2>8. Led(sess) => lost = {}
    BY <2>6, <2>7
  <2>9. past' \in Past /\ past'.closed = past.closed /\ past'.stale = past.stale /\ past'.ended = past.ended \cup lost
    BY <1>3 DEF TInv, TType, Past
  <2>. HIDE DEF lost
  <2>10. cache' \subseteq CacheRec /\ CacheCounted'
    BY <1>1, <2>6, CacheStays
  <2>. QED
    BY <1>1, <2>6, <2>8, <2>9, <2>10 DEF TInv, TType, ServerKeeps, PanesSurvive, PaneReadIsRecent
<1>. QED
  BY <1>2, <1>3 DEF KillSession

\* The user selects a pane or shows a window,
LEMMA UserSelectsStep == ASSUME TInv, UserSelects PROVE TInv'
<1>1. UNCHANGED <<cache, past>> /\ CommandType'
  BY SameCommand DEF UserSelects, UserActs
<1>2. PICK s \in Session : UserSelects!(s)
  BY DEF UserSelects
<1>3. CASE \E p \in PanesIn(sess[s].cur) : Settle(win, group, [act EXCEPT ![sess[s].cur] = p], sess, FALSE)
  <2>1. sess[s].cur \in Window
    BY <1>2 DEF Shown, TInv, TType, ServerType
  <2>. QED
    BY <1>1, <1>3, <2>1, SelectKeeps, CommandKeeps DEF PanesIn
<1>4. ASSUME NEW x \in Window, Settle(win, group, act, [sess EXCEPT ![s].cur = x], FALSE)
      PROVE  TInv'
  <2>. DEFINE r == [sess[s] EXCEPT !.cur = x]
  <2>1. r \in SessionRec /\ r.live = sess[s].live /\ r.group = sess[s].group
    BY CommandRecord DEF SessionRec
  <2>2. [sess EXCEPT ![s].cur = x] = [sess EXCEPT ![s] = r]
    BY CommandRecord DEF SessionRec
  <2>. HIDE DEF r
  <2>3. ServerKeeps /\ (Led(sess) => Led(sess'))
    BY <1>4, <2>1, <2>2, CommandRecord, ShowKeeps
  <2>. QED
    BY <1>1, <2>3, CommandKeeps
<1>. QED
  BY <1>2, <1>3, <1>4

\* or ends a session, which the history notes.
LEMMA UserKillsStep == ASSUME TInv, UserKillsSession PROVE TInv'
<1>1. UNCHANGED cache /\ CommandType'
  BY SameCommand DEF UserKillsSession, UserActs
<1>2. PICK s \in Session : UserKillsSession!(s)
  BY DEF UserKillsSession
<1>3. [sess EXCEPT ![s] = NoSess] \in [Session -> SessionRec]
  BY CommandRecord DEF NoSess, SessionRec, SessionName
<1>4. ServerKeeps
  BY <1>2, <1>3, CommandRecord, SettleKeeps
<1>5. past' \in Past /\ past'.closed /\ past'.stale = past.stale
  BY <1>2 DEF TInv, TType, Past
<1>6. cache' \subseteq CacheRec /\ CacheCounted'
  BY <1>1, <1>4, CacheStays
<1>. QED
  BY <1>1, <1>4, <1>5, <1>6 DEF TInv, TType, ServerKeeps, PanesSurvive, PaneReadIsRecent

\* The clock ages the cache by what it ages the panes out of focus.
LEMMA TickStep == ASSUME TInv, Tick PROVE TInv'
<1>1. UNCHANGED past /\ CommandType' /\ cache' = {[c EXCEPT !.age = c.age + 1] : c \in cache}
      /\ Settle(win, group, act, sess, TRUE)
  BY SameCommand DEF Tick
<1>2. /\ ServerType' /\ WindowsHeld' /\ FocusCounted' /\ (Led(sess) => Led(sess'))
      /\ \A s \in Session, p \in TPane : gone'[s][p] <= gone[s][p] + (IF TRUE THEN 1 ELSE 0)
  BY <1>1, CommandRecord, SettleEffect
<1>3. ASSUME NEW c \in cache
      PROVE  LET d == [c EXCEPT !.age = c.age + 1] IN d \in CacheRec /\ d.of = c.of /\ d.age = c.age + 1
  BY DEF TInv, TType, CacheRec
<1>4. \A d \in cache' : \E c \in cache : d \in CacheRec /\ d.of = c.of /\ d.age = c.age + 1
  BY <1>1, <1>3
<1>5. \A c, d \in cache' : c = d
  BY <1>1 DEF TInv, CacheCounted
<1>6. ASSUME NEW d \in cache', NEW s \in Session, d.of[s] # NoTPane
      PROVE  gone'[s][d.of[s]] <= d.age
  <2>1. PICK c \in cache : d \in CacheRec /\ d.of = c.of /\ d.age = c.age + 1
    BY <1>4
  <2>2. c.of[s] \in TPane /\ c.age \in Nat /\ gone[s][c.of[s]] <= c.age
    BY <1>6, <2>1 DEF TInv, TType, CacheRec, CacheCounted
  <2>3. gone'[s][c.of[s]] \in Nat /\ gone[s][c.of[s]] \in Nat /\ gone'[s][c.of[s]] <= gone[s][c.of[s]] + 1
    BY <1>2, <2>2, CommandRecord DEF ServerType
  <2>. QED
    BY <2>1, <2>2, <2>3
<1>7. cache' \subseteq CacheRec /\ CacheCounted'
  BY <1>4, <1>5, <1>6 DEF CacheCounted
<1>. QED
  BY <1>1, <1>2, <1>7 DEF TInv, TType, PanesSurvive, PaneReadIsRecent

\* Two sessions with a window each satisfy it,
LEMMA TmuxInitInv == TmuxInit => TInv
<1>. SUFFICES ASSUME TmuxInit PROVE TInv
  OBVIOUS
<1>1. /\ win \in [TPane -> Window \cup {NoWindow}]
      /\ \A p \in TPane : win[p] = IF p = OtherPane THEN OtherWindow ELSE MainWindow
  BY TmuxAssumption DEF TmuxInit
<1>2. /\ group \in [Window -> SessionName]
      /\ group[MainWindow] = MainSession /\ group[OtherWindow] \in {MainSession, OtherSession}
  BY TmuxAssumption DEF TmuxInit, SessionName
<1>3. act \in [Window -> TPane \cup {NoTPane}]
  <2>1. (CHOOSE p \in TPane \ {OtherPane} : TRUE) \in TPane
    BY TmuxAssumption
  <2>. QED
    BY <2>1, TmuxAssumption DEF TmuxInit
<1>. DEFINE rec(s, w) == [live |-> TRUE, group |-> s, cur |-> w, client |-> TRUE]
<1>4. ASSUME NEW s \in Session
      PROVE  sess[s] = IF s = MainSession THEN rec(s, MainWindow)
                       ELSE IF s = OtherSession THEN rec(s, OtherWindow) ELSE NoSess
  BY DEF TmuxInit
<1>5. rec(MainSession, MainWindow) \in SessionRec /\ rec(OtherSession, OtherWindow) \in SessionRec
      /\ NoSess \in SessionRec /\ ~NoSess.live
  BY TmuxAssumption DEF SessionRec, SessionName, NoSess
<1>6. ASSUME NEW s \in Session
      PROVE  /\ sess[s] \in SessionRec
             /\ sess[s].live <=> s \in {MainSession, OtherSession}
             /\ sess[s].live => sess[s].group = s /\ sess[s].cur \in Window
  <2>1. CASE s = MainSession
    <3>1. sess[s] = rec(s, MainWindow) /\ sess[s] \in SessionRec
      BY <1>4, <1>5, <2>1
    <3>2. sess[s].live /\ sess[s].group = s /\ sess[s].cur = MainWindow
      BY <3>1
    <3>. QED
      BY <3>1, <3>2, <2>1, TmuxAssumption
  <2>2. CASE s # MainSession /\ s = OtherSession
    <3>1. sess[s] = rec(s, OtherWindow) /\ sess[s] \in SessionRec
      BY <1>4, <1>5, <2>2
    <3>2. sess[s].live /\ sess[s].group = s /\ sess[s].cur = OtherWindow
      BY <3>1
    <3>. QED
      BY <3>1, <3>2, <2>2, TmuxAssumption
  <2>3. CASE s \notin {MainSession, OtherSession}
    <3>1. sess[s] = NoSess
      BY <1>4, <2>3
    <3>. QED
      BY <1>5, <2>3, <3>1
  <2>. QED
    BY <2>1, <2>2, <2>3
<1>7. sess \in [Session -> SessionRec]
  BY <1>6 DEF TmuxInit
<1>8. \A s \in Session : Focused(s) \in TPane \cup {NoTPane}
  BY <1>3, <1>6 DEF Focused, Shown
<1>9. /\ gone \in [Session -> [TPane -> Nat]]
      /\ \A s \in Session, p \in TPane : p = Focused(s) => gone[s][p] = 0
  BY TmuxAssumption DEF TmuxInit
<1>10. ServerType /\ FocusCounted
  BY <1>1, <1>2, <1>3, <1>6, <1>7, <1>8, <1>9 DEF ServerType, FocusCounted
<1>11. WindowsHeld
  <2>1. ASSUME NEW p \in TPane PROVE group[win[p]] \in {MainSession, OtherSession}
    BY <1>1, <1>2
  <2>2. MainSession \in Session /\ OtherSession \in Session
    BY TmuxAssumption
  <2>. QED
    BY <1>6, <2>1, <2>2 DEF WindowsHeld, Holders
<1>12. Led(sess)
  BY <1>6 DEF Led
<1>13. cmd \in TmuxCmd /\ past \in Past /\ past.ended = {} /\ ~past.stale /\ cache = {} /\ doing = "idle"
  BY DEF TmuxInit, NoCmd, TmuxCmd, NoPast, Past
<1>. QED
  BY <1>10, <1>11, <1>12, <1>13 DEF TInv, TType, CommandType, CacheCounted, PanesSurvive,
     PaneReadIsRecent

\* every step keeps it,
LEMMA TmuxStepInv == TInv /\ [TmuxNext]_tmuxVars => TInv'
<1>1. ASSUME TInv, TmuxNext PROVE TInv'
  BY <1>1, BeginStep, ReadSourceStep, SelectStep, BreakStep, NewSessionStep, AttachStep,
     PrepareStep,
     JoinStep, KillStep, TickStep, UserSelectsStep, UserKillsStep DEF TmuxNext, CommandStep
<1>2. ASSUME TInv, UNCHANGED tmuxVars PROVE TInv'
  <2>1. UNCHANGED server /\ UNCHANGED <<cache, past>> /\ UNCHANGED <<cmd, doing>>
    BY <1>2 DEF tmuxVars, server
  <2>. QED
    BY <1>2, <2>1, StayedLed, CommandKeeps, SameCommand
<1>. QED
  BY <1>1, <1>2

\* so it always holds.
LEMMA TmuxInvariant == TmuxSpec => []TInv
BY TmuxInitInv, TmuxStepInv, PTL DEF TmuxSpec

\* The session that a merge kills after it has joined the pane takes no pane with it,
\* unless a user has ended one of the sessions of a group (merge_into_target).
THEOREM MergesEndNoPane == TmuxSpec => []PanesSurvive
<1>1. TInv => PanesSurvive
  BY DEF TInv
<1>. QED
  BY <1>1, TmuxInvariant, PTL

\* The pane that an operation acts on had its client's focus at most Ttl ticks before,
\* whatever the cache was read for (focused_pane_id_for_client, TMUX_CACHE_TTL).
THEOREM ActsOnRecentPane == TmuxSpec => []PaneReadIsRecent
<1>1. TInv => PaneReadIsRecent
  BY DEF TInv
<1>. QED
  BY <1>1, TmuxInvariant, PTL

-----------------------------------------------------------------------------
(***************************************************************************)
(* VS Code: the clipboard, through which the capture of a group reads the  *)
(* path of each tab.  ClipInv says where the copied text is kept, and that *)
(* no command that copies is on its way once it was given back.            *)
(***************************************************************************)

\* The call's record has its fields.
IsMerging(m) ==
  m = [at |-> m.at, scope |-> m.scope, next |-> m.next, previous |-> m.previous, index |-> m.index,
       original |-> m.original, last |-> m.last, captured |-> m.captured, active |-> m.active,
       todo |-> m.todo, unshown |-> m.unshown, had |-> m.had, clip0 |-> m.clip0]

\* Commands none of which copies.
NoCopies(s) == \E S : s \in Seq(S) /\ \A c \in S : c.verb # "copyPath"
IsSeq(s) == \E S : s \in Seq(S)

Captures == {"idle", "probe", "read", "openTab", "back", "restore"}
Captured0 == {"prepared", "settleMerge", "merge", "done", "failed"}

(* The inductive invariant of the clipboard: until the paths are read the   *)
(* copied text is kept in the call, no command is on its way whenever the   *)
(* call goes on, and none that copies is sent afterwards.                   *)
ClipInv ==
  /\ IsMerging(merging) /\ IsSeq(merging.captured) /\ IsSeq(sent)
  /\ merging.at \in {"settleBack", "restore"} => merging.next \in {"prepared", "failed"}
  /\ merging.at # "idle" /\ merging.clip0 = Text => merging.previous = Text
  /\ ~meddled /\ merging.at \in Captures => sent = <<>>
  /\ ~meddled /\ merging.at \in Captured0 => NoCopies(sent)
  /\ NoCopies(merging.todo)
  /\ ClipboardGivenBack

\* A sequence grows, shrinks and is joined to a sequence.
LEMMA Grown ==
  ASSUME NEW s, NEW t, NEW c, IsSeq(s), IsSeq(t)
  PROVE  /\ IsSeq(Append(s, c)) /\ IsSeq(<<c>>) /\ IsSeq(s \o t)
         /\ s # <<>> => IsSeq(Tail(s))
<1>1. PICK S : s \in Seq(S)
  BY DEF IsSeq
<1>2. PICK T : t \in Seq(T)
  BY DEF IsSeq
<1>3. s \in Seq(S \cup {c}) /\ s \in Seq(S \cup T) /\ t \in Seq(S \cup T) /\ <<>> \in Seq({c})
  BY <1>1, <1>2, SeqMonotonic, EmptySeq
<1>4. Append(s, c) \in Seq(S \cup {c}) /\ <<c>> \in Seq({c}) /\ s \o t \in Seq(S \cup T)
  BY <1>3, AppendProperties, ConcatProperties
<1>5. s # <<>> => Tail(s) \in Seq(S)
  BY <1>1, HeadTailProperties
<1> QED
  BY <1>4, <1>5 DEF IsSeq

\* And no command that copies comes in unless it is put there.
LEMMA StillNoCopies ==
  ASSUME NEW s, NEW t, NEW c, NoCopies(s), NoCopies(t)
  PROVE  /\ c.verb # "copyPath" => NoCopies(Append(s, c)) /\ NoCopies(<<c>>)
         /\ NoCopies(s \o t)
         /\ s # <<>> => NoCopies(Tail(s)) /\ Head(s).verb # "copyPath"
<1>1. PICK S : s \in Seq(S) /\ \A d \in S : d.verb # "copyPath"
  BY DEF NoCopies
<1>2. PICK T : t \in Seq(T) /\ \A d \in T : d.verb # "copyPath"
  BY DEF NoCopies
<1>3. s \in Seq(S \cup {c}) /\ s \in Seq(S \cup T) /\ t \in Seq(S \cup T) /\ <<>> \in Seq({c})
  BY <1>1, <1>2, SeqMonotonic, EmptySeq
<1>4. Append(s, c) \in Seq(S \cup {c}) /\ <<c>> \in Seq({c}) /\ s \o t \in Seq(S \cup T)
  BY <1>3, AppendProperties, ConcatProperties
<1>5. c.verb # "copyPath" => NoCopies(Append(s, c)) /\ NoCopies(<<c>>)
  <2> SUFFICES ASSUME c.verb # "copyPath" PROVE NoCopies(Append(s, c)) /\ NoCopies(<<c>>)
    OBVIOUS
  <2>1. \A d \in S \cup {c} : d.verb # "copyPath"
    BY <1>1
  <2> QED
    BY <2>1, <1>4 DEF NoCopies
<1>6. NoCopies(s \o t)
  <2>1. \A d \in S \cup T : d.verb # "copyPath"
    BY <1>1, <1>2
  <2> QED
    BY <2>1, <1>4 DEF NoCopies
<1>7. s # <<>> => NoCopies(Tail(s)) /\ Head(s).verb # "copyPath"
  <2> SUFFICES ASSUME s # <<>> PROVE NoCopies(Tail(s)) /\ Head(s).verb # "copyPath"
    OBVIOUS
  <2>1. Tail(s) \in Seq(S) /\ Head(s) \in S
    BY <1>1, HeadTailProperties
  <2> QED
    BY <1>1, <2>1 DEF NoCopies
<1> QED
  BY <1>5, <1>6, <1>7

\* No commands are a sequence, and copy nothing.
LEMMA NothingSent == IsSeq(<<>>) /\ NoCopies(<<>>)
<1> DEFINE K == {Command("keep", 0)}
<1>1. \A c \in K : c.verb # "copyPath"
  BY DEF Command
<1> HIDE DEF K
<1>2. <<>> \in Seq(K)
  BY EmptySeq
<1> QED
  BY <1>1, <1>2 DEF IsSeq, NoCopies

\* The commands of a merge copy no path.
LEMMA MergeCopiesNothing ==
  ASSUME IsSeq(merging.captured)
  PROVE  NoCopies(MergeCommands)
<1> DEFINE C == {Command(v, merging.captured[i]) : v \in {"openPath"}, i \in 1..Len(merging.captured)}
                \cup {Command("keep", 0)}
           all == OpenAll(merging.captured)
<1>1. PICK S : merging.captured \in Seq(S)
  BY DEF IsSeq
<1>2. Len(merging.captured) \in Nat
  BY <1>1
<1>3. \A k \in 1..2 * Len(merging.captured) : all[k] \in C
  <2> SUFFICES ASSUME NEW k \in 1..2 * Len(merging.captured) PROVE all[k] \in C
    OBVIOUS
  <2> DEFINE i == (k + 1) \div 2  path == merging.captured[i]
  <2>1. i \in 1..Len(merging.captured) /\ (2 - (k % 2)) \in {1, 2}
    BY <1>2
  <2>2. all[k] = OpenPath(path)[2 - (k % 2)]
    BY DEF OpenAll
  <2>3. OpenPath(path)[1] = Command("openPath", path) /\ OpenPath(path)[2] = Command("keep", 0)
    BY DEF OpenPath
  <2>4. Command("openPath", path) \in C
    BY <2>1
  <2> HIDE DEF i, path, C, all
  <2>5. Command("keep", 0) \in C
    BY DEF C
  <2> QED
    BY <2>1, <2>2, <2>3, <2>4, <2>5
<1>4. all \in Seq(C)
  <2>1. all = [k \in 1..2 * Len(merging.captured) |-> all[k]]
    BY DEF OpenAll
  <2>2. 2 * Len(merging.captured) \in Nat
    BY <1>2
  <2> HIDE DEF all, C
  <2> QED
    BY <1>3, <2>1, <2>2, IsASeq
<1>5. \A c \in C : c.verb # "copyPath"
  BY DEF Command
<1>6. NoCopies(all)
  <2> HIDE DEF all, C
  <2> QED
    BY <1>4, <1>5 DEF NoCopies
<1>7. \A v, a : v # "copyPath" => NoCopies(<<Command(v, a)>>)
  <2> SUFFICES ASSUME NEW v, NEW a, v # "copyPath" PROVE NoCopies(<<Command(v, a)>>)
    OBVIOUS
  <2>1. Command(v, a).verb # "copyPath"
    BY DEF Command
  <2> HIDE DEF all, C
  <2> QED
    BY <2>1, StillNoCopies, NothingSent
<1>8. NoCopies(<<Command("openPath", merging.captured[1]), Command("keep", 0)>>)
  <2> DEFINE a == Command("openPath", merging.captured[1])  b == Command("keep", 0)  K == {a, b}
  <2>1. \A c \in K : c.verb # "copyPath"
    BY DEF Command
  <2> HIDE DEF a, b, all, C
  <2>2. <<a, b>> \in Seq(K)
    OBVIOUS
  <2> HIDE DEF K
  <2>3. NoCopies(<<a, b>>)
    BY <2>1, <2>2 DEF NoCopies
  <2> QED
    BY <2>3 DEF a, b
<1> HIDE DEF all, C
<1>9. NoCopies(<<Command("closeActive", 0)>> \o all \o <<Command("openIndex", merging.active)>>)
  BY <1>6, <1>7, StillNoCopies
<1>10. NoCopies(OpenPath(merging.captured[1]) \o <<Command("closeOthers", 0)>>)
  BY <1>7, <1>8, StillNoCopies DEF OpenPath
<1>11. NoCopies(MoveTerminal)
  BY <1>7 DEF MoveTerminal
<1> DEFINE rest == IF merging.scope = "buffer" THEN OpenPath(merging.captured[1]) \o <<Command("closeOthers", 0)>>
                   ELSE <<Command("closeActive", 0)>> \o all \o <<Command("openIndex", merging.active)>>
<1>12. NoCopies(rest)
  BY <1>9, <1>10
<1>13. MergeCommands = IF merging.scope = "terminal" THEN MoveTerminal ELSE <<Command("split", 0)>> \o rest
  BY DEF MergeCommands, all
<1> HIDE DEF rest
<1>14. NoCopies(<<Command("split", 0)>> \o rest)
  BY <1>7, <1>12, StillNoCopies
<1> QED
  BY <1>11, <1>13, <1>14

\* A command that is sent is on its way, or lost.
LEMMA SendEffect ==
  ASSUME NEW c, Send(c)
  PROVE  sent' = sent \/ sent' = Append(sent, c)
  BY DEF Send

\* At first nothing was sent and nothing captured.
LEMMA ClipInit == MergeInit => ClipInv
<1> SUFFICES ASSUME MergeInit PROVE ClipInv
  OBVIOUS
<1>1. IsMerging(merging) /\ merging.at = "idle" /\ merging.captured = <<>> /\ merging.todo = <<>> /\ sent = <<>>
  BY DEF MergeInit, NoMerging, IsMerging
<1> QED
  BY <1>1, NothingSent DEF ClipInv, ClipboardGivenBack, Captured0

\* The record keeps its fields.
LEMMA MergingStays ==
  ASSUME IsMerging(merging), [VscodeMergeNext]_mergeVars
  PROVE  IsMerging(merging)'
<1> USE DEF IsMerging
<1>1. ASSUME NEW scope, BeginsMerge(scope) PROVE IsMerging(merging)'
  BY <1>1 DEF BeginsMerge, Merging, NoMerging
<1>2. CASE CopiesPath
  BY <1>2 DEF CopiesPath
<1>3. CASE ClipboardSettles \/ TabSettles \/ BackSettles \/ MergeSettles
  BY <1>3 DEF ClipboardSettles, TabSettles, BackSettles, MergeSettles, Settles
<1>4. CASE ReadsPath
  BY <1>4 DEF ReadsPath, Merging, Captured
<1>5. CASE OpensTab \/ GoesBack \/ RestoresClipboard
  BY <1>5 DEF OpensTab, GoesBack, RestoresClipboard
<1>6. CASE ShowsTarget \/ MergesNext \/ SendFails
  BY <1>6 DEF ShowsTarget, MergesNext, SendFails, OnlyShows, Merging
<1>7. CASE CarriesOut \/ UserCopies \/ UserChangesTab \/ UNCHANGED mergeVars
  BY <1>7 DEF CarriesOut, UserCopies, UserChangesTab, mergeVars
<1> QED
  BY <1>1, <1>2, <1>3, <1>4, <1>5, <1>6, <1>7 DEF VscodeMergeNext

\* Once the call is disturbed it stays so, and the programs on the machine are
\* as they were.
LEMMA HistoryStays ==
  ASSUME [VscodeMergeNext]_mergeVars
  PROVE  writable' = writable /\ (meddled => meddled')
<1> USE DEF Merging, Settles, mergeVars
<1>1. ASSUME NEW scope, BeginsMerge(scope) PROVE writable' = writable /\ (meddled => meddled')
  BY <1>1 DEF BeginsMerge
<1>2. CASE ClipboardSettles \/ TabSettles \/ BackSettles \/ MergeSettles
  BY <1>2 DEF ClipboardSettles, TabSettles, BackSettles, MergeSettles
<1> QED
  BY <1>1, <1>2 DEF VscodeMergeNext, CopiesPath, ReadsPath, OpensTab, GoesBack, RestoresClipboard,
     ShowsTarget, MergesNext, SendFails, CarriesOut, UserCopies, UserChangesTab

\* A step that leaves clipboard, commands and history alone, and of the call no
\* more than its place: from one before the reading to another, or after it.
LEMMA OnlyMovesOn ==
  ASSUME ClipInv, IsMerging(merging)', sent' = sent, clip' = clip, meddled' = meddled, writable' = writable,
         IsSeq(merging'.captured), NoCopies(merging'.todo),
         merging'.clip0 = merging.clip0, merging'.previous = merging.previous, merging.at # "idle",
         merging'.at \in {"settleBack", "restore"} => merging'.next \in {"prepared", "failed"},
         merging'.at \in Captures => merging.at \in Captures,
         merging'.at \in Captured0 => merging.at \in Captured0
  PROVE  ClipInv'
<1>1. ClipboardGivenBack'
  BY DEF ClipInv, ClipboardGivenBack, Captured0
<1> QED
  BY <1>1 DEF ClipInv

\* After the capture, a command that copies nothing may be sent.
LEMMA SendingKeeps ==
  ASSUME ClipInv, NEW c, Send(c) \/ sent' = sent, IsMerging(merging)', meddled' = meddled, writable' = writable,
         IsSeq(merging'.captured), NoCopies(merging'.todo),
         merging'.clip0 = merging.clip0, merging'.previous = merging.previous, merging.at # "idle",
         merging'.at \in {"settleBack", "restore"} => merging'.next \in {"prepared", "failed"},
         merging'.at \notin Captures,
         merging'.at \in Captured0 => merging.at \in Captured0 /\ clip' = clip /\ c.verb # "copyPath"
  PROVE  ClipInv'
<1>1. sent' = sent \/ sent' = Append(sent, c)
  BY SendEffect
<1>2. IsSeq(sent') /\ (NoCopies(sent) /\ c.verb # "copyPath" => NoCopies(sent'))
  BY <1>1, Grown, StillNoCopies, NothingSent DEF ClipInv
<1>3. ClipboardGivenBack'
  BY DEF ClipInv, ClipboardGivenBack, Captured0
<1> QED
  BY <1>2, <1>3 DEF ClipInv

\* Every step keeps the invariant.
LEMMA ClipStep ==
  ASSUME ClipInv, [VscodeMergeNext]_mergeVars
  PROVE  ClipInv'
<1>0. IsMerging(merging) /\ IsMerging(merging)' /\ writable' = writable /\ (meddled => meddled')
  BY MergingStays, HistoryStays DEF ClipInv
<1>1. ASSUME NEW scope, BeginsMerge(scope) PROVE ClipInv'
  <2>1. /\ merging.at = "idle" /\ sent' = sent /\ clip' = clip /\ meddled' = meddled
        /\ merging'.captured = <<>> /\ merging'.todo = <<>> /\ merging'.clip0 = clip
        /\ merging'.previous = (IF IsText(clip) THEN clip ELSE NoPath)
        /\ merging'.at \in {"prepared", "probe"}
    BY <1>1 DEF BeginsMerge, Merging, NoMerging
  <2>2. ClipboardGivenBack'
    BY <2>1 DEF ClipboardGivenBack
  <2>3. merging'.clip0 = Text => merging'.previous = Text
    BY <2>1 DEF IsText, Text, Image
  <2> QED
    BY <1>0, <2>1, <2>2, <2>3, NothingSent DEF ClipInv, Captures, Captured0
<1>2. CASE CopiesPath
  <2>1. /\ Send(Command("copyPath", 0)) /\ merging.at = "probe" /\ merging'.at = "settle" /\ meddled' = meddled
        /\ merging'.captured = merging.captured /\ merging'.todo = merging.todo
        /\ merging'.clip0 = merging.clip0 /\ merging'.previous = merging.previous
    BY <1>0, <1>2 DEF CopiesPath, IsMerging
  <2> QED
    BY <1>0, <2>1, SendingKeeps DEF ClipInv, Captures, Captured0
<1>3. CASE ClipboardSettles \/ TabSettles \/ BackSettles \/ MergeSettles
  <2>1. /\ sent' = sent /\ clip' = clip
        /\ merging'.captured = merging.captured /\ merging'.todo = merging.todo /\ merging'.next = merging.next
        /\ merging'.clip0 = merging.clip0 /\ merging'.previous = merging.previous
        /\ \/ <<merging.at, merging'.at>> \in {<<"settle", "read">>, <<"settleTab", "probe">>, <<"settleBack", "restore">>}
           \/ merging.at = "settleMerge" /\ merging'.at = "merge"
        /\ sent # <<>> => meddled'
    BY <1>0, <1>3 DEF ClipboardSettles, TabSettles, BackSettles, MergeSettles, Settles, IsMerging
  <2>2. ClipboardGivenBack'
    BY <1>0, <2>1 DEF ClipInv, ClipboardGivenBack
  <2>3. ~meddled' /\ merging'.at \in Captures => sent' = <<>>
    BY <2>1
  <2>4. ~meddled' /\ merging'.at \in Captured0 => NoCopies(sent')
    BY <1>0, <2>1 DEF ClipInv, Captured0
  <2> QED
    BY <1>0, <2>1, <2>2, <2>3, <2>4 DEF ClipInv
<1>4. CASE ReadsPath
  <2>1. /\ sent' = sent /\ clip' = clip /\ meddled' = meddled /\ merging.at = "read"
        /\ merging'.todo = merging.todo
        /\ merging'.clip0 = merging.clip0 /\ merging'.previous = merging.previous
        /\ merging'.at \in {"restore", "openTab", "back"}
        /\ merging'.at = "restore" => merging'.next \in {"prepared", "failed"}
    BY <1>0, <1>4 DEF ReadsPath, Merging, Captured, IsMerging
  <2>2. \/ merging'.captured = merging.captured \/ merging'.captured = Append(merging.captured, clip)
        \/ merging'.captured \in {<<>>, <<clip>>}
    BY <1>0, <1>4 DEF ReadsPath, Merging, Captured, IsMerging
  <2>3. IsSeq(merging'.captured)
    BY <2>2, Grown, NothingSent DEF ClipInv
  <2> QED
    BY <1>0, <2>1, <2>3, OnlyMovesOn DEF ClipInv, Captures, Captured0
<1>5. CASE OpensTab
  <2>1. /\ Send(Command("openIndex", merging.index)) /\ merging.at = "openTab" /\ merging'.at = "settleTab" /\ meddled' = meddled
        /\ merging'.captured = merging.captured /\ merging'.todo = merging.todo
        /\ merging'.clip0 = merging.clip0 /\ merging'.previous = merging.previous
    BY <1>0, <1>5 DEF OpensTab, IsMerging
  <2> QED
    BY <1>0, <2>1, SendingKeeps DEF ClipInv, Captures, Captured0
<1>6. CASE GoesBack
  <2>1. /\ Send(Command("openIndex", OriginalIndex)) \/ sent' = sent
        /\ merging.at = "back" /\ merging'.at = "settleBack" /\ merging'.next = "prepared" /\ meddled' = meddled
        /\ merging'.captured = merging.captured /\ merging'.todo = merging.todo
        /\ merging'.clip0 = merging.clip0 /\ merging'.previous = merging.previous
    BY <1>0, <1>6 DEF GoesBack, IsMerging
  <2> QED
    BY <1>0, <2>1, SendingKeeps DEF ClipInv, Captures, Captured0
<1>7. CASE RestoresClipboard
  <2>1. /\ sent' = sent /\ meddled' = meddled /\ merging.at = "restore" /\ merging'.at = merging.next /\ clip' = GivesBack
        /\ merging'.captured = merging.captured /\ merging'.todo = merging.todo
        /\ merging'.clip0 = merging.clip0 /\ merging'.previous = merging.previous
    BY <1>0, <1>7 DEF RestoresClipboard, IsMerging
  <2>2. merging'.at \in {"prepared", "failed"}
    BY <2>1 DEF ClipInv
  <2>3. merging.clip0 = Text /\ writable => GivesBack = Text
    BY <2>1 DEF ClipInv, GivesBack, ToClip, Text, NoPath
  <2>4. ClipboardGivenBack'
    BY <1>0, <2>1, <2>3 DEF ClipboardGivenBack
  <2>5. ~meddled => sent = <<>>
    BY <2>1 DEF ClipInv, Captures
  <2> QED
    BY <1>0, <2>1, <2>2, <2>4, <2>5, NothingSent DEF ClipInv, Captures
<1>8. CASE ShowsTarget
  <2>1. /\ sent' = Append(sent, Command("show", 0)) /\ meddled' = meddled /\ merging.at = "prepared" /\ clip' = clip
        /\ merging'.at = "settleMerge" /\ merging'.captured = merging.captured /\ merging'.todo = MergeCommands
        /\ merging'.clip0 = merging.clip0 /\ merging'.previous = merging.previous
    BY <1>0, <1>8 DEF ShowsTarget, IsMerging
  <2>2. IsSeq(sent') /\ (NoCopies(sent) => NoCopies(sent'))
    BY <2>1, Grown, StillNoCopies, NothingSent DEF ClipInv, Command
  <2>3. ClipboardGivenBack'
    BY <1>0, <2>1 DEF ClipInv, ClipboardGivenBack
  <2>4. NoCopies(merging'.todo)
    BY <2>1, MergeCopiesNothing DEF ClipInv
  <2> QED
    BY <1>0, <2>1, <2>2, <2>3, <2>4 DEF ClipInv, Captures, Captured0
<1>9. CASE MergesNext
  <2>1. CASE merging.todo = <<>>
    <3>1. /\ sent' = sent /\ meddled' = meddled /\ merging.at = "merge" /\ merging'.at = "done" /\ clip' = clip
          /\ merging'.captured = merging.captured /\ merging'.todo = merging.todo
          /\ merging'.clip0 = merging.clip0 /\ merging'.previous = merging.previous
      BY <1>0, <1>9, <2>1 DEF MergesNext, Merging, IsMerging
    <3> QED
      BY <1>0, <3>1, OnlyMovesOn DEF ClipInv, Captures, Captured0
  <2>2. CASE merging.todo # <<>>
    <3>1. /\ Send(Head(merging.todo)) /\ meddled' = meddled /\ merging.at = "merge" /\ clip' = clip
          /\ merging'.at \in {"merge", "settleMerge"}
          /\ merging'.captured = merging.captured /\ merging'.todo = Tail(merging.todo)
          /\ merging'.clip0 = merging.clip0 /\ merging'.previous = merging.previous
      BY <1>0, <1>9, <2>2 DEF MergesNext, IsMerging
    <3>2. NoCopies(merging'.todo) /\ Head(merging.todo).verb # "copyPath"
      BY <2>2, <3>1, StillNoCopies DEF ClipInv
    <3> QED
      BY <1>0, <3>1, <3>2, SendingKeeps DEF ClipInv, Captures, Captured0
  <2> QED
    BY <2>1, <2>2
<1>10. CASE SendFails
  <2>1. /\ sent' = sent /\ meddled' = meddled /\ clip' = clip
        /\ \/ merging.at = "merge" /\ merging'.at = "failed" /\ merging'.todo = merging.todo
           \/ merging.at = "merge" /\ merging'.at = "settleMerge" /\ merging'.todo = <<>>
           \/ /\ merging.at \in {"probe", "openTab"} /\ merging'.at = "restore" /\ merging'.next = "failed"
              /\ merging'.todo = merging.todo
        /\ merging'.captured = merging.captured
        /\ merging'.clip0 = merging.clip0 /\ merging'.previous = merging.previous
    BY <1>0, <1>10 DEF SendFails, OnlyShows, IsMerging
  <2>2. NoCopies(merging'.todo)
    BY <2>1, NothingSent DEF ClipInv
  <2> QED
    BY <1>0, <2>1, <2>2, OnlyMovesOn DEF ClipInv, Captures, Captured0
<1>11. CASE CarriesOut
  <2>1. /\ sent # <<>> /\ sent' = Tail(sent) /\ meddled' = meddled /\ merging' = merging
        /\ Head(sent).verb # "copyPath" => clip' = clip
    BY <1>11 DEF CarriesOut
  <2>2. IsSeq(sent') /\ (NoCopies(sent) => NoCopies(sent') /\ clip' = clip)
    BY <2>1, Grown, StillNoCopies DEF ClipInv
  <2>3. ClipboardGivenBack'
    BY <1>0, <2>1, <2>2 DEF ClipInv, ClipboardGivenBack, Captured0
  <2>4. ~meddled' /\ merging'.at \in Captures => sent' = <<>>
    BY <2>1 DEF ClipInv
  <2> QED
    BY <1>0, <2>1, <2>2, <2>3, <2>4 DEF ClipInv
<1>12. CASE UserCopies \/ UserChangesTab
  <2>1. meddled' = TRUE /\ merging' = merging /\ sent' = sent
    BY <1>12 DEF UserCopies, UserChangesTab
  <2> QED
    BY <2>1 DEF ClipInv, ClipboardGivenBack
<1>13. CASE UNCHANGED mergeVars
  BY <1>13 DEF ClipInv, ClipboardGivenBack, mergeVars
<1> QED
  BY <1>1, <1>2, <1>3, <1>4, <1>5, <1>6, <1>7, <1>8, <1>9, <1>10, <1>11, <1>12, <1>13 DEF VscodeMergeNext

\* Whatever becomes of a merge, a text that the user had copied is in the clipboard
\* again once the paths are read, however many tabs there were and wherever a port
\* failed, unless a wait was too short or the user copied another meanwhile
\* (capture_active_file_path, capture_active_group_paths).
THEOREM MergeGivesClipboardBack == MergeSpec => []ClipboardGivenBack
<1>1. ClipInv => ClipboardGivenBack
  BY DEF ClipInv
<1> QED
  BY ClipInit, ClipStep, <1>1, PTL DEF MergeSpec

-----------------------------------------------------------------------------
(* What arrives is what was there *)

HadTabs == merging.had.tabs
HadActive == merging.had.active
FrontNow == groups[Source].active
\* How many tabs are captured, and which of them is the one that was shown.
Whole == IF Len(HadTabs) < MaxTabs THEN Len(HadTabs) ELSE MaxTabs
ShownOfWhole == IF HadActive <= Whole THEN HadActive ELSE 1
AllHavePaths == ~\E i \in DOMAIN HadTabs : HadTabs[i] \in Pathless
Undisturbed == ~meddled /\ Reaches /\ (writable \/ AllHavePaths)

\* The source is as it was, but for the tab in front, and so is the target.
SidesKept ==
  /\ HadTabs \in Tabs0 /\ merging.had = Group(HadTabs, HadActive) /\ HadActive \in 1..Len(HadTabs)
  /\ groups = <<groups[Source], groups[Target], groups[SplitOff]>>
  /\ groups[Source] = Group(HadTabs, FrontNow) /\ FrontNow \in 1..Len(HadTabs)
  /\ groups[Target] = Group(<<TargetTab>>, 1)

\* A path is read: the marker is there, then the path, if the tab has one.
TabIsRead == clip = IF HadTabs[FrontNow] \in Pathless THEN Probe ELSE HadTabs[FrontNow]
AskInv ==
  \/ merging.at = "probe" /\ sent = <<>>
  \/ merging.at = "settle" /\ sent = <<Command("copyPath", 0)>> /\ (writable => clip = Probe)
  \/ merging.at \in {"settle", "read"} /\ sent = <<>> /\ TabIsRead
LookInv ==
  /\ merging.scope \in {"buffer", "group"} /\ merging.next = "original" /\ merging.captured = <<>>
  /\ merging.index = 1 /\ merging.last = NoPath /\ FrontNow = HadActive /\ AskInv
\* The tabs are opened one after the other; the last one stays in front.
OpenedLast == merging.index > 1 => FrontNow = merging.index - 1
OpenedNext == FrontNow = IF merging.index <= Len(HadTabs) THEN merging.index ELSE Len(HadTabs)
WalkInv ==
  /\ merging.scope = "group" /\ merging.next = "tab" /\ merging.original = HadTabs[HadActive]
  /\ merging.index \in 1..MaxTabs /\ merging.index - 1 <= Len(HadTabs)
  /\ merging.captured = SubSeq(HadTabs, 1, merging.index - 1)
  /\ merging.last = IF merging.index = 1 THEN NoPath ELSE HadTabs[merging.index - 1]
  /\ \/ merging.at = "openTab" /\ sent = <<>> /\ OpenedLast
     \/ merging.at = "settleTab" /\ sent = <<Command("openIndex", merging.index)>> /\ OpenedLast
     \/ merging.at = "settleTab" /\ sent = <<>> /\ OpenedNext
     \/ AskInv /\ OpenedNext
BackInv ==
  /\ merging.scope = "group" /\ merging.captured = SubSeq(HadTabs, 1, Whole)
  /\ \/ merging.at = "back" /\ sent = <<>> /\ merging.original = HadTabs[HadActive]
     \/ /\ merging.at = "settleBack" /\ merging.next = "prepared" /\ merging.active = ShownOfWhole
        /\ sent \in {<<>>, <<Command("openIndex", ShownOfWhole)>>}
CapturedAll ==
  \/ merging.scope = "terminal"
  \/ merging.scope = "buffer" /\ merging.captured = <<HadTabs[HadActive]>>
  \/ merging.scope = "group" /\ merging.captured = SubSeq(HadTabs, 1, Whole) /\ merging.active = ShownOfWhole
GivesBackInv ==
  /\ sent = <<>>
  /\ \/ merging.at = "restore" /\ merging.next = "failed"
     \/ merging.at = "restore" /\ merging.next = "prepared" /\ CapturedAll
     \/ merging.at = "prepared" /\ CapturedAll
CaptureInv == /\ SidesKept /\ groups[SplitOff] = NoGroup /\ current = Source
              /\ LookInv \/ WalkInv \/ BackInv \/ GivesBackInv

\* What the group split off holds after k commands.
SplitHolds(g) == current = SplitOff /\ groups[SplitOff] = g
NoSplit == current = Target /\ groups[SplitOff] = NoGroup
\* The source's tab beside the target's; it may be the same file.
BesideTarget(preview) ==
  IF HadTabs[HadActive] = TargetTab THEN Group(<<TargetTab>>, 1)
  ELSE [tabs |-> <<TargetTab, HadTabs[HadActive]>>, active |-> 2, preview |-> preview]
PlacedBuffer(k) ==
  \/ k = 0 /\ NoSplit
  \/ k = 1 /\ SplitHolds(Group(<<TargetTab>>, 1))
  \/ k = 2 /\ SplitHolds(BesideTarget(2))
  \/ k = 3 /\ SplitHolds(BesideTarget(0))
  \/ k = 4 /\ SplitHolds(Group(<<HadTabs[HadActive]>>, 1))
FirstTabs(j, preview) == [tabs |-> SubSeq(HadTabs, 1, j), active |-> j, preview |-> preview]
PlacedGroup(k) ==
  \/ k = 0 /\ NoSplit
  \/ k = 1 /\ SplitHolds(Group(<<TargetTab>>, 1))
  \/ \E j \in 0..Whole : k = 2 * j + 2 /\ SplitHolds(FirstTabs(j, 0))
  \/ \E j \in 1..Whole : k = 2 * j + 1 /\ SplitHolds(FirstTabs(j, j))
  \/ k = 2 * Whole + 3 /\ SplitHolds(Group(SubSeq(HadTabs, 1, Whole), ShownOfWhole))
PlacedSoFar(k) == /\ merging.scope = "terminal" => NoSplit
                  /\ merging.scope = "buffer" => PlacedBuffer(k)
                  /\ merging.scope = "group" => PlacedGroup(k)
\* a commands were carried out, b sent; the last one of a group may have been given up.
Between(a, b) ==
  /\ a <= b /\ PlacedSoFar(a) /\ sent = SubSeq(MergeCommands, a + 1, b)
  /\ ~merging.unshown => merging.todo = SubSeq(MergeCommands, b + 1, Len(MergeCommands))
  /\ merging.unshown => /\ merging.scope = "group" /\ merging.todo = <<>> /\ b + 1 = Len(MergeCommands)
                        /\ merging.at = "merge" => a = b
  /\ merging.at = "merge" => (a = b \/ MergeCommands[b].verb = "openPath")
  /\ merging.at = "done" => a = b /\ (~merging.unshown => b = Len(MergeCommands))
PlaceInv ==
  /\ SidesKept /\ CapturedAll
  /\ \/ merging.at = "settleMerge" /\ sent = <<Command("show", 0)>> /\ merging.todo = MergeCommands
        /\ groups[SplitOff] = NoGroup /\ ~merging.unshown
     \/ \E a, b \in 0..Len(MergeCommands) : Between(a, b)

\* What is known of the ports.
NetInv == NoPort \notin DOMAIN net.kind /\ net \in NetOver(DOMAIN net.kind)

\* A command that was given up was the last one.
GivesUpLast == merging.unshown => merging.at \in {"settleMerge", "merge", "done"} /\ merging.todo = <<>>

(* The inductive invariant: while the call was not disturbed, it knows of   *)
(* the source what it has read, and VS Code shows what it was told.         *)
GroupInv ==
  /\ IsMerging(merging) /\ NetInv
  /\ GivesUpLast
  /\ merging.at = "idle" => /\ sent = <<>> /\ current = Source
                            /\ \E tabs \in Tabs0 : \E i \in DOMAIN tabs :
                                 groups = <<Group(tabs, i), Group(<<TargetTab>>, 1), NoGroup>>
  /\ Undisturbed =>
       /\ merging.at \notin {"idle", "settleMerge", "merge", "done", "failed"} => CaptureInv
       /\ merging.at \in {"settleMerge", "merge", "done"} /\ ~(closesEmpty /\ merging.scope = "group") => PlaceInv

\* All candidates are ports, or sockets passed over.
LEMMA Candidates ==
  ASSUME NetInv
  PROVE  /\ CandidatePorts \in Seq(DOMAIN net.kind \cup {NoPort})
         /\ ListenerPorts \in Seq(DOMAIN net.kind \cup {NoPort})
<1> DEFINE P == DOMAIN net.kind  Q == DOMAIN net.kind \cup {NoPort}
<1>1. /\ net.setting \in Seq(P) /\ net.cached \in Seq(P) /\ net.env \in Seq(P) /\ net.default \in Seq(P)
      /\ net.sockets \in Seq([port : P, state : STRING, mine : BOOLEAN])
  BY DEF NetInv, NetOver
<1>2. P \subseteq Q /\ NoPort \in Q
  OBVIOUS
<1>3. ListenerPorts \in Seq(Q)
  <2>1. ListenerPorts = [i \in 1..Len(net.sockets) |-> ListenerPorts[i]] /\ Len(net.sockets) \in Nat
    BY <1>1 DEF ListenerPorts
  <2>2. ASSUME NEW i \in 1..Len(net.sockets) PROVE ListenerPorts[i] \in Q
    <3>1. net.sockets[i].port \in P
      <4> DEFINE R == [port : P, state : STRING, mine : BOOLEAN]
      <4>1. net.sockets[i] \in R
        <5>1. net.sockets \in Seq(R)
          BY <1>1
        <5> HIDE DEF R
        <5> QED
          BY <5>1
      <4> QED
        BY <4>1
    <3>2. ListenerPorts[i] = IF Listening(net.sockets[i]) THEN net.sockets[i].port ELSE NoPort
      BY <1>1 DEF ListenerPorts
    <3> HIDE DEF P, Q
    <3> QED
      BY <1>2, <3>1, <3>2
  <2> HIDE DEF Q
  <2> QED
    BY <2>1, <2>2, IsASeq
<1> HIDE DEF P, Q
<1>4. net.setting \in Seq(Q) /\ net.cached \in Seq(Q) /\ net.env \in Seq(Q) /\ net.default \in Seq(Q)
  BY <1>1, <1>2, SeqMonotonic
<1>5. net.cached \o net.env \o ListenerPorts \o net.default \in Seq(Q)
  BY <1>3, <1>4, ConcatProperties
<1> QED
  BY <1>3, <1>4, <1>5 DEF CandidatePorts, Q

\* A port that took a command takes the next one too.
LEMMA StillReaches ==
  ASSUME NetInv, NEW i \in FirstAccepting, net' = [net EXCEPT !.cached = <<CandidatePorts[i]>>]
  PROVE  /\ NetInv' /\ net'.manages = net.manages
         /\ Reaches' <=> net.kind[CandidatePorts[i]] = "vscode"
         /\ Reaches <=> net.kind[CandidatePorts[i]] = "vscode"
<1>0. PICK p : p = CandidatePorts[i]
  OBVIOUS
<1>1. CandidatePorts \in Seq(DOMAIN net.kind \cup {NoPort}) /\ i \in 1..Len(CandidatePorts) /\ Len(CandidatePorts) \in Nat
      /\ Accepting(p) /\ \A j \in 1..i - 1 : ~Accepting(CandidatePorts[j])
  BY <1>0, Candidates DEF FirstAccepting
<1>2. p \in DOMAIN net.kind
  BY <1>0, <1>1 DEF Accepting
<1>3. /\ net'.setting = net.setting /\ net'.env = net.env /\ net'.sockets = net.sockets /\ net'.default = net.default
      /\ net'.kind = net.kind /\ net'.manages = net.manages /\ net'.cached = <<p>>
  BY <1>0 DEF NetInv, NetOver
<1>4. NetInv'
  <2> DEFINE K == DOMAIN net.kind
  <2>1. <<p>> \in Seq(K)
    <3>1. p \in K
      BY <1>2
    <3> HIDE DEF K
    <3> QED
      BY <3>1
  <2>2. net' \in NetOver(K)
    BY <1>0, <2>1 DEF NetInv, NetOver
  <2> QED
    BY <1>3, <2>2 DEF NetInv, NetOver
<1>5. ASSUME NEW j \in FirstAccepting PROVE j = i
  <2>1. j \in 1..Len(CandidatePorts) /\ Accepting(CandidatePorts[j]) /\ \A k \in 1..j - 1 : ~Accepting(CandidatePorts[k])
    BY <1>1, <1>5 DEF FirstAccepting
  <2> QED
    BY <1>0, <1>1, <2>1
<1>6. Reaches <=> net.kind[p] = "vscode"
  BY <1>0, <1>5, Zenon DEF Reaches
<1>7. ASSUME NEW q PROVE Accepting(q)' <=> Accepting(q)
  BY <1>3 DEF Accepting
<1>8. CASE net.setting # <<>>
  <2>1. CandidatePorts' = CandidatePorts
    BY <1>3, <1>8 DEF CandidatePorts
  <2>2. FirstAccepting' = FirstAccepting
    BY <1>7, <2>1, Zenon DEF FirstAccepting
  <2>3. Reaches' <=> Reaches
    BY <1>3, <2>1, <2>2, Zenon DEF Reaches
  <2> QED
    BY <1>0, <1>3, <1>4, <1>6, <2>3
<1>9. CASE net.setting = <<>>
  <2> DEFINE Q == DOMAIN net.kind \cup {NoPort}
  <2>1. ListenerPorts' = ListenerPorts
    BY <1>3 DEF ListenerPorts, Listening
  <2>2. CandidatePorts' = <<p>> \o net.env \o ListenerPorts \o net.default
    BY <1>3, <1>9, <2>1 DEF CandidatePorts
  <2>3. <<p>> \in Seq(Q) /\ net.env \in Seq(Q) /\ ListenerPorts \in Seq(Q) /\ net.default \in Seq(Q)
    <3>1. net.env \in Seq(DOMAIN net.kind) /\ net.default \in Seq(DOMAIN net.kind)
      BY DEF NetInv, NetOver
    <3>2. p \in Q
      BY <1>2
    <3>3. ListenerPorts \in Seq(Q)
      BY Candidates
    <3> QED
      BY <3>1, <3>2, <3>3
  <2> HIDE DEF Q
  <2>4. <<p>> \o net.env \in Seq(Q) /\ (<<p>> \o net.env)[1] = p /\ Len(<<p>> \o net.env) >= 1
    BY <2>3
  <2>5. <<p>> \o net.env \o ListenerPorts \in Seq(Q) /\ (<<p>> \o net.env \o ListenerPorts)[1] = p
        /\ Len(<<p>> \o net.env \o ListenerPorts) >= 1
    BY <2>3, <2>4
  <2>6. CandidatePorts' \in Seq(Q) /\ CandidatePorts'[1] = p /\ Len(CandidatePorts') >= 1
    <3> DEFINE front == <<p>> \o net.env \o ListenerPorts
    <3>1. front \in Seq(Q) /\ front[1] = p /\ Len(front) >= 1 /\ CandidatePorts' = front \o net.default
      BY <2>2, <2>5
    <3> HIDE DEF front
    <3> QED
      BY <2>3, <3>1
  <2>7. Accepting(p)'
    BY <1>1, <1>7
  <2>8. 1 \in DOMAIN CandidatePorts' /\ DOMAIN CandidatePorts' = 1..Len(CandidatePorts')
    BY <2>6
  <2>9. 1 \in FirstAccepting'
    BY <1>7, <2>6, <2>7, <2>8 DEF FirstAccepting
  <2>10. ASSUME NEW j \in FirstAccepting' PROVE j = 1
    BY <2>6, <2>7, <2>8, <2>10 DEF FirstAccepting
  <2>11. Reaches' <=> net.kind[p] = "vscode"
    BY <1>3, <2>6, <2>9, <2>10, Zenon DEF Reaches
  <2> QED
    BY <1>0, <1>3, <1>4, <1>6, <2>11
<1> QED
  BY <1>8, <1>9

\* A command that is sent is on its way if it reaches VS Code.
LEMMA SendReaches ==
  ASSUME NetInv, NEW c, Send(c)
  PROVE  NetInv' /\ net'.manages = net.manages /\ (Reaches' => Reaches) /\ (Reaches => sent' = Append(sent, c))
<1>1. PICK i \in FirstAccepting : /\ sent' = IF net.kind[CandidatePorts[i]] = "vscode" THEN Append(sent, c) ELSE sent
                                  /\ net' = [net EXCEPT !.cached = <<CandidatePorts[i]>>]
  BY DEF Send
<1> QED
  BY <1>1, StillReaches, Zenon

\* What a group may hold, and how much of it is captured.
LEMMA TabFacts ==
  ASSUME HadTabs \in Tabs0, HadActive \in 1..Len(HadTabs)
  PROVE  /\ HadTabs \in Seq(STRING \ {Probe, Text, Image, Late, NoPath}) /\ Len(HadTabs) \in Nat /\ Len(HadTabs) >= 1
         /\ DOMAIN HadTabs = 1..Len(HadTabs) /\ MaxTabs \in Nat /\ MaxTabs >= 1
         /\ \A i, j \in 1..Len(HadTabs) : HadTabs[i] = HadTabs[j] => i = j
         /\ \A i \in 1..Len(HadTabs) : HadTabs[i] \notin {Probe, Text, Image, Late, NoPath}
         /\ Whole \in 1..Len(HadTabs) /\ Whole <= MaxTabs /\ ShownOfWhole \in 1..Whole
<1>1. HadTabs \in Seq(STRING \ {Probe, Text, Image, Late, NoPath}) /\ \A i, j \in DOMAIN HadTabs : HadTabs[i] = HadTabs[j] => i = j
  BY MergeAssumption
<1>2. Len(HadTabs) \in Nat /\ DOMAIN HadTabs = 1..Len(HadTabs) /\ MaxTabs \in Nat \ {0}
  BY <1>1, MergeAssumption
<1>3. Whole \in 1..Len(HadTabs) /\ Whole <= MaxTabs
  BY <1>2 DEF Whole
<1>4. ShownOfWhole \in 1..Whole
  BY <1>2, <1>3 DEF ShownOfWhole
<1>5. \A i \in 1..Len(HadTabs) : HadTabs[i] \notin {Probe, Text, Image, Late, NoPath}
  <2> DEFINE T == STRING \ {Probe, Text, Image, Late, NoPath}
  <2>1. HadTabs \in Seq(T)
    BY <1>1
  <2> HIDE DEF T
  <2>2. \A i \in 1..Len(HadTabs) : HadTabs[i] \in T
    BY <2>1
  <2> QED
    BY <2>2, Zenon DEF T
<1> QED
  BY <1>1, <1>2, <1>3, <1>4, <1>5

\* The call keeps what it knows when it only goes on.
SameMerging ==
  /\ merging'.scope = merging.scope /\ merging'.next = merging.next /\ merging'.index = merging.index
  /\ merging'.original = merging.original /\ merging'.last = merging.last /\ merging'.captured = merging.captured
  /\ merging'.active = merging.active /\ merging'.had = merging.had
\* A step that only goes on leaves the rest of the call alone.
LEMMA GoesOn ==
  ASSUME IsMerging(merging), NEW to, merging' = [merging EXCEPT !.at = to]
  PROVE  /\ SameMerging /\ merging'.at = to /\ merging'.todo = merging.todo
         /\ merging'.unshown = merging.unshown
  BY DEF IsMerging, SameMerging

\* And so it does of the source's group.
LEMMA SameHad ==
  ASSUME merging'.had = merging.had
  PROVE  HadTabs' = HadTabs /\ HadActive' = HadActive /\ Whole' = Whole /\ ShownOfWhole' = ShownOfWhole
         /\ AllHavePaths' = AllHavePaths
<1>1. HadTabs' = HadTabs /\ HadActive' = HadActive
  BY DEF HadTabs, HadActive
<1>2. Whole' = Whole
  BY <1>1 DEF Whole
<1>3. ShownOfWhole' = ShownOfWhole
  BY <1>1, <1>2 DEF ShownOfWhole
<1>4. AllHavePaths' = AllHavePaths
  BY <1>1 DEF AllHavePaths
<1> QED
  BY <1>1, <1>2, <1>3, <1>4
\* Groups that nobody touches are still what they were.
LEMMA SidesStay ==
  ASSUME SidesKept, groups' = groups, merging'.had = merging.had
  PROVE  SidesKept' /\ FrontNow' = FrontNow
<1>1. HadTabs' = HadTabs /\ HadActive' = HadActive /\ FrontNow' = FrontNow
  BY SameHad DEF FrontNow
<1>2. groups'[Source] = groups[Source] /\ groups'[Target] = groups[Target] /\ groups'[SplitOff] = groups[SplitOff]
  BY DEF Source, Target, SplitOff
<1> QED
  BY <1>1, <1>2 DEF SidesKept, Group

\* The fields of an undisturbed call that captures.
LEMMA CopiesKeeps ==
  ASSUME IsMerging(merging), NetInv, Reaches, CaptureInv, CopiesPath
  PROVE  CaptureInv'
<1>1. /\ merging.at = "probe" /\ SameMerging /\ merging'.at = "settle"
      /\ groups' = groups /\ current' = current /\ writable' = writable /\ clip' = ToClip(Probe)
  BY GoesOn DEF CopiesPath
<1>2. sent' = Append(sent, Command("copyPath", 0))
  BY SendReaches DEF CopiesPath
<1>3. sent = <<>>
  BY <1>1 DEF CaptureInv, LookInv, WalkInv, BackInv, GivesBackInv, AskInv
<1>4. sent' = <<Command("copyPath", 0)>>
  BY <1>2, <1>3
<1>5. AskInv'
  BY <1>1, <1>4 DEF AskInv, ToClip, Command
<1>6. SidesKept' /\ FrontNow' = FrontNow /\ groups'[SplitOff] = NoGroup
  BY <1>1, SidesStay DEF CaptureInv, SameMerging
<1>7. HadTabs' = HadTabs /\ HadActive' = HadActive
  BY <1>1, SameHad DEF SameMerging
<1>8. LookInv \/ (WalkInv /\ OpenedNext)
  BY <1>1 DEF CaptureInv, LookInv, WalkInv, BackInv, GivesBackInv, AskInv
<1>9. LookInv => LookInv'
  BY <1>1, <1>5, <1>6, <1>7 DEF LookInv, SameMerging
<1>10. WalkInv /\ OpenedNext => WalkInv'
  BY <1>1, <1>5, <1>6, <1>7 DEF WalkInv, OpenedNext, SameMerging
<1> QED
  BY <1>1, <1>6, <1>8, <1>9, <1>10 DEF CaptureInv

\* A wait that was long enough: what was sent is carried out.
LEMMA WaitsKeep ==
  ASSUME IsMerging(merging), CaptureInv, ClipboardSettles \/ TabSettles \/ BackSettles, ~meddled'
  PROVE  CaptureInv'
<1>1. /\ SameMerging /\ groups' = groups /\ current' = current /\ clip' = clip /\ writable' = writable
      /\ sent = <<>> /\ sent' = sent
      /\ <<merging.at, merging'.at>> \in {<<"settle", "read">>, <<"settleTab", "probe">>, <<"settleBack", "restore">>}
  BY GoesOn DEF ClipboardSettles, TabSettles, BackSettles, Settles
<1>2. SidesKept' /\ FrontNow' = FrontNow /\ groups'[SplitOff] = NoGroup
  BY <1>1, SidesStay DEF CaptureInv, SameMerging
<1>3. HadTabs' = HadTabs /\ HadActive' = HadActive /\ Whole' = Whole /\ ShownOfWhole' = ShownOfWhole
  BY <1>1, SameHad DEF SameMerging
<1>4. CASE merging.at = "settle"
  <2>1. TabIsRead /\ (LookInv \/ (WalkInv /\ OpenedNext))
    BY <1>1, <1>4 DEF CaptureInv, LookInv, WalkInv, BackInv, GivesBackInv, AskInv
  <2>2. TabIsRead'
    BY <1>1, <1>2, <1>3, <2>1 DEF TabIsRead
  <2>3. AskInv'
    BY <1>1, <1>4, <2>2 DEF AskInv
  <2>4. LookInv => LookInv'
    BY <1>1, <1>2, <1>3, <2>3 DEF LookInv, SameMerging
  <2>5. WalkInv /\ OpenedNext => WalkInv'
    BY <1>1, <1>2, <1>3, <2>3 DEF WalkInv, OpenedNext, SameMerging
  <2> QED
    BY <1>1, <1>2, <2>1, <2>4, <2>5 DEF CaptureInv
<1>5. CASE merging.at = "settleTab"
  <2>1. WalkInv /\ OpenedNext
    BY <1>1, <1>5 DEF CaptureInv, LookInv, WalkInv, BackInv, GivesBackInv, AskInv
  <2>2. AskInv'
    BY <1>1, <1>5 DEF AskInv
  <2>3. WalkInv'
    BY <1>1, <1>2, <1>3, <2>1, <2>2 DEF WalkInv, OpenedNext, SameMerging
  <2> QED
    BY <1>1, <1>2, <2>3 DEF CaptureInv
<1>6. CASE merging.at = "settleBack"
  <2>1. BackInv /\ merging.next = "prepared" /\ merging.active = ShownOfWhole
    BY <1>1, <1>6 DEF CaptureInv, LookInv, WalkInv, BackInv, GivesBackInv, AskInv
  <2>2. CapturedAll'
    BY <1>1, <1>3, <2>1 DEF BackInv, CapturedAll, SameMerging
  <2>3. GivesBackInv'
    BY <1>1, <1>6, <2>1, <2>2 DEF GivesBackInv, SameMerging
  <2> QED
    BY <1>1, <1>2, <2>3 DEF CaptureInv
<1> QED
  BY <1>1, <1>4, <1>5, <1>6

\* The next tab is asked for by its number.
LEMMA OpensTabKeeps ==
  ASSUME IsMerging(merging), NetInv, Reaches, CaptureInv, OpensTab
  PROVE  CaptureInv'
<1>1. /\ merging.at = "openTab" /\ SameMerging /\ merging'.at = "settleTab"
      /\ groups' = groups /\ current' = current
  BY GoesOn DEF OpensTab
<1>2. sent' = Append(sent, Command("openIndex", merging.index))
  BY SendReaches DEF OpensTab
<1>3. WalkInv /\ sent = <<>> /\ OpenedLast
  BY <1>1 DEF CaptureInv, LookInv, WalkInv, BackInv, GivesBackInv, AskInv
<1>4. sent' = <<Command("openIndex", merging.index)>> /\ Command("openIndex", merging.index)' = Command("openIndex", merging.index)
  BY <1>1, <1>2, <1>3 DEF SameMerging, Command
<1>5. SidesKept' /\ FrontNow' = FrontNow /\ groups'[SplitOff] = NoGroup
  BY <1>1, SidesStay DEF CaptureInv, SameMerging
<1>6. HadTabs' = HadTabs /\ HadActive' = HadActive
  BY <1>1, SameHad DEF SameMerging
<1>7. WalkInv'
  BY <1>1, <1>3, <1>4, <1>5, <1>6 DEF WalkInv, OpenedLast, SameMerging
<1> QED
  BY <1>1, <1>5, <1>7 DEF CaptureInv

\* The captured tab that was shown is at its place in the group.
LEMMA ShownIsFound ==
  ASSUME SidesKept, merging.original = HadTabs[HadActive], merging.captured = SubSeq(HadTabs, 1, Whole)
  PROVE  OriginalIndex = ShownOfWhole
<1>1. /\ HadTabs \in Seq(STRING \ {Probe, Text, Image, Late, NoPath}) /\ Len(HadTabs) \in Nat
      /\ \A i, j \in 1..Len(HadTabs) : HadTabs[i] = HadTabs[j] => i = j
      /\ Whole \in 1..Len(HadTabs) /\ HadActive \in 1..Len(HadTabs)
  BY TabFacts DEF SidesKept
<1>2. /\ merging.captured \in Seq(STRING) /\ Len(merging.captured) = Whole /\ DOMAIN merging.captured = 1..Whole
      /\ \A i \in 1..Whole : merging.captured[i] = HadTabs[i]
  <2>1. HadTabs \in Seq(STRING)
    BY <1>1, SeqMonotonic
  <2>2. \A i \in 1..Whole : HadTabs[i] \in STRING
    BY <1>1, <2>1
  <2> QED
    BY <1>1, <2>2, SubSeqProperties DEF SidesKept
<1>3. CASE HadActive <= Whole
  <2>1. HadActive \in 1..Whole /\ merging.captured[HadActive] = merging.original
    BY <1>1, <1>2, <1>3
  <2>2. Contains(merging.captured, merging.original)
    BY <1>2, <2>1 DEF Contains
  <2>3. ASSUME NEW i \in 1..Whole, merging.captured[i] = merging.original PROVE i = HadActive
    BY <1>1, <1>2, <2>1, <2>3
  <2>4. (CHOOSE i \in DOMAIN merging.captured : merging.captured[i] = merging.original) = HadActive
    BY <1>2, <2>1, <2>3, Zenon
  <2>5. OriginalIndex = HadActive
    BY <2>2, <2>4, Zenon DEF OriginalIndex
  <2> QED
    BY <1>3, <2>5 DEF ShownOfWhole
<1>4. CASE ~(HadActive <= Whole)
  <2>1. ASSUME NEW i \in 1..Whole PROVE merging.captured[i] # merging.original
    BY <1>1, <1>2, <1>4
  <2>2. ~Contains(merging.captured, merging.original)
    BY <1>2, <2>1 DEF Contains
  <2> QED
    BY <1>4, <2>2 DEF OriginalIndex, ShownOfWhole
<1> QED
  BY <1>3, <1>4

\* The tab that was shown is found among those captured, if it is one of them.
LEMMA GoesBackKeeps ==
  ASSUME IsMerging(merging), NetInv, Reaches, CaptureInv, GoesBack
  PROVE  CaptureInv'
<1>1. /\ merging.at = "back" /\ merging'.at = "settleBack" /\ merging'.active = OriginalIndex /\ merging'.next = "prepared"
      /\ merging'.scope = merging.scope /\ merging'.captured = merging.captured /\ merging'.had = merging.had
      /\ groups' = groups /\ current' = current
  BY DEF GoesBack, IsMerging
<1>2. BackInv /\ sent = <<>> /\ merging.original = HadTabs[HadActive]
  BY <1>1 DEF CaptureInv, LookInv, WalkInv, BackInv, GivesBackInv, AskInv
<1>3. OriginalIndex = ShownOfWhole
  BY <1>2, ShownIsFound DEF CaptureInv, BackInv
<1>4. sent' = <<>> \/ sent' = <<Command("openIndex", ShownOfWhole)>>
  <2>1. sent' = sent \/ sent' = Append(sent, Command("openIndex", OriginalIndex))
    BY SendReaches DEF GoesBack
  <2> QED
    BY <1>2, <1>3, <2>1
<1>5. SidesKept' /\ FrontNow' = FrontNow /\ groups'[SplitOff] = NoGroup
  BY <1>1, SidesStay DEF CaptureInv
<1>6. HadTabs' = HadTabs /\ Whole' = Whole /\ ShownOfWhole' = ShownOfWhole
  BY <1>1, SameHad
<1>7. sent' = <<>> \/ sent' = <<Command("openIndex", ShownOfWhole)>>'
  BY <1>4, <1>6 DEF Command
<1>8. BackInv'
  BY <1>1, <1>2, <1>3, <1>6, <1>7 DEF BackInv
<1> QED
  BY <1>1, <1>5, <1>8 DEF CaptureInv

\* Giving the clipboard back takes nothing from what was captured.
LEMMA RestoresKeeps ==
  ASSUME IsMerging(merging), CaptureInv, RestoresClipboard
  PROVE  merging'.at = "failed" \/ CaptureInv'
<1>1. /\ merging.at = "restore" /\ SameMerging /\ merging'.at = merging.next
      /\ groups' = groups /\ current' = current /\ sent' = sent
  BY GoesOn DEF RestoresClipboard
<1>2. sent = <<>> /\ (merging.next = "failed" \/ (merging.next = "prepared" /\ CapturedAll))
  BY <1>1 DEF CaptureInv, LookInv, WalkInv, BackInv, GivesBackInv, AskInv
<1>3. SidesKept' /\ groups'[SplitOff] = NoGroup
  BY <1>1, SidesStay DEF CaptureInv, SameMerging
<1>4. HadTabs' = HadTabs /\ HadActive' = HadActive /\ Whole' = Whole /\ ShownOfWhole' = ShownOfWhole
  BY <1>1, SameHad DEF SameMerging
<1>5. CapturedAll => CapturedAll'
  BY <1>1, <1>4 DEF CapturedAll, SameMerging
<1> QED
  BY <1>1, <1>2, <1>3, <1>5 DEF CaptureInv, GivesBackInv

\* A command that cannot be sent ends the reading.
LEMMA FailingKeeps ==
  ASSUME IsMerging(merging), CaptureInv, SendFails
  PROVE  merging.at = "merge" \/ CaptureInv'
<1>1. /\ merging'.had = merging.had /\ groups' = groups /\ current' = current /\ sent' = sent
      /\ \/ merging.at = "merge"
         \/ merging.at \in {"probe", "openTab"} /\ merging'.at = "restore" /\ merging'.next = "failed"
  BY DEF SendFails, OnlyShows, IsMerging
<1>2. merging.at \in {"probe", "openTab"} => sent = <<>>
  BY DEF CaptureInv, LookInv, WalkInv, BackInv, GivesBackInv, AskInv
<1>3. SidesKept' /\ groups'[SplitOff] = NoGroup
  BY <1>1, SidesStay DEF CaptureInv
<1> QED
  BY <1>1, <1>2, <1>3 DEF CaptureInv, GivesBackInv

\* One tab more is captured.
LEMMA OneMore ==
  ASSUME NEW S, NEW tabs \in Seq(S), NEW k \in 1..Len(tabs)
  PROVE  Append(SubSeq(tabs, 1, k - 1), tabs[k]) = SubSeq(tabs, 1, k)
<1>1. Len(tabs) \in Nat /\ 1 \in 1..Len(tabs) /\ k \in 1..Len(tabs)
  OBVIOUS
<1>2. SubSeq(tabs, 1, k) = SubSeq(tabs, 1, k - 1) \o <<tabs[k]>>
  BY <1>1, SubSeqRecursiveSecond
<1>3. SubSeq(tabs, 1, k - 1) \in Seq(S)
  <2>1. \A i \in 1..k - 1 : tabs[i] \in S
    BY <1>1
  <2> QED
    BY <1>1, <2>1, SubSeqProperties
<1>4. tabs[k] \in S
  OBVIOUS
<1> QED
  BY <1>2, <1>3, <1>4, AppendIsConcat

\* A path is read, and what it tells is true of the source.
LEMMA ReadsKeeps ==
  ASSUME IsMerging(merging), CaptureInv, ReadsPath
  PROVE  CaptureInv'
<1>1. /\ merging.at = "read" /\ groups' = groups /\ current' = current /\ sent' = sent /\ merging'.had = merging.had
      /\ clip' = clip
  BY DEF ReadsPath, Merging, Captured, IsMerging
<1>2. sent = <<>> /\ TabIsRead /\ (LookInv \/ (WalkInv /\ OpenedNext)) /\ SidesKept
  BY <1>1 DEF CaptureInv, LookInv, WalkInv, BackInv, GivesBackInv, AskInv
<1>3. SidesKept' /\ FrontNow' = FrontNow /\ groups'[SplitOff] = NoGroup
  BY <1>1, SidesStay DEF CaptureInv
<1>4. HadTabs' = HadTabs /\ HadActive' = HadActive /\ Whole' = Whole /\ ShownOfWhole' = ShownOfWhole
  BY <1>1, SameHad
<1>5. /\ HadTabs \in Seq(STRING \ {Probe, Text, Image, Late, NoPath}) /\ Len(HadTabs) \in Nat /\ Len(HadTabs) >= 1
      /\ MaxTabs \in Nat /\ FrontNow \in 1..Len(HadTabs)
      /\ \A i, j \in 1..Len(HadTabs) : HadTabs[i] = HadTabs[j] => i = j
      /\ \A i \in 1..Len(HadTabs) : HadTabs[i] \notin {Probe, Text, Image, Late, NoPath}
  BY <1>2, TabFacts DEF SidesKept
<1>6. CASE TakenForTerminal
  <2>1. merging'.at = "restore" /\ merging'.next = "prepared" /\ merging'.scope = "terminal"
    BY <1>6 DEF ReadsPath, Merging, IsMerging
  <2> QED
    BY <1>1, <1>2, <1>3, <2>1 DEF CaptureInv, GivesBackInv, CapturedAll
<1>7. CASE ~TakenForTerminal /\ clip = Probe
  <2>1. merging'.at = "restore" /\ merging'.next = "failed"
    BY <1>7 DEF ReadsPath, Merging, IsMerging
  <2> QED
    BY <1>1, <1>2, <1>3, <2>1 DEF CaptureInv, GivesBackInv
<1>8. CASE ~TakenForTerminal /\ clip # Probe
  <2>1. clip = HadTabs[FrontNow] /\ IsText(clip) /\ clip # NoPath
    BY <1>2, <1>5, <1>8 DEF TabIsRead, IsText
  <2>2. CASE LookInv /\ merging.scope = "buffer"
    <3>1. merging'.at = "restore" /\ merging'.next = "prepared" /\ merging'.scope = "buffer" /\ merging'.captured = <<clip>>
      BY <1>8, <2>1, <2>2 DEF ReadsPath, Merging, IsMerging, LookInv
    <3>2. CapturedAll'
      BY <1>4, <2>1, <2>2, <3>1 DEF CapturedAll, LookInv
    <3> QED
      BY <1>1, <1>2, <1>3, <3>1, <3>2 DEF CaptureInv, GivesBackInv
  <2>3. CASE LookInv /\ merging.scope = "group"
    <3>1. /\ merging'.at = "openTab" /\ merging'.next = "tab" /\ merging'.scope = "group" /\ merging'.captured = <<>>
          /\ merging'.original = clip /\ merging'.index = 1 /\ merging'.last = NoPath
      BY <1>8, <2>1, <2>3 DEF ReadsPath, Merging, IsMerging, LookInv
    <3>2. merging'.captured = SubSeq(HadTabs, 1, 1 - 1)
      BY <1>5, <3>1, SubSeqEmpty
    <3>3. OpenedLast'
      BY <3>1 DEF OpenedLast
    <3>4. merging'.original = HadTabs[HadActive] /\ 1 \in 1..MaxTabs
      BY <2>1, <2>3, <3>1, MergeAssumption DEF LookInv
    <3>5. WalkInv'
      BY <1>1, <1>2, <1>4, <1>5, <3>1, <3>2, <3>3, <3>4 DEF WalkInv
    <3> QED
      BY <1>1, <1>2, <1>3, <3>5 DEF CaptureInv
  <2>4. CASE WalkInv /\ OpenedNext
    <3> DEFINE i == merging.index
    <3>0. i \in 1..MaxTabs /\ i - 1 <= Len(HadTabs) /\ merging.next = "tab" /\ merging.scope = "group"
          /\ merging.captured = SubSeq(HadTabs, 1, i - 1) /\ merging.original = HadTabs[HadActive]
      BY <2>4 DEF WalkInv
    <3>1. merging' = Captured(clip)
      BY <1>8, <2>1, <3>0 DEF ReadsPath, Merging
    <3>2. CASE clip = merging.last
      <4>1. merging'.at = "back" /\ merging'.captured = merging.captured /\ merging'.scope = "group"
            /\ merging'.original = merging.original
        BY <3>0, <3>1, <3>2 DEF Captured, IsMerging
      <4>2. i # 1 /\ HadTabs[FrontNow] = HadTabs[i - 1]
        BY <2>1, <2>4, <3>2 DEF WalkInv
      <4>3. i - 1 = Len(HadTabs)
        BY <1>5, <2>4, <3>0, <4>2 DEF OpenedNext
      <4>4. Whole = i - 1
        BY <1>5, <3>0, <4>3 DEF Whole
      <4>5. BackInv'
        BY <1>1, <1>2, <1>4, <3>0, <4>1, <4>4 DEF BackInv
      <4> QED
        BY <1>1, <1>3, <4>5 DEF CaptureInv
    <3>3. CASE clip # merging.last
      <4>1. /\ merging'.at = (IF i < MaxTabs THEN "openTab" ELSE "back") /\ merging'.captured = Append(merging.captured, clip)
            /\ merging'.scope = "group" /\ merging'.original = merging.original /\ merging'.next = "tab"
            /\ merging'.index = i + 1 /\ merging'.last = clip
        BY <3>0, <3>1, <3>3 DEF Captured, IsMerging
      <4>2. i <= Len(HadTabs) /\ FrontNow = i
        <5>1. CASE i > Len(HadTabs)
          <6>1. i - 1 = Len(HadTabs) /\ FrontNow = i - 1 /\ i # 1
            BY <1>5, <2>4, <3>0, <5>1 DEF OpenedNext
          <6>2. merging.last = HadTabs[i - 1]
            BY <2>4, <6>1 DEF WalkInv
          <6> QED
            BY <2>1, <3>3, <6>1, <6>2
        <5> QED
          BY <1>5, <2>4, <3>0, <5>1 DEF OpenedNext
      <4>3. merging'.captured = SubSeq(HadTabs, 1, i)
        BY <1>5, <2>1, <3>0, <4>1, <4>2, OneMore
      <4>4. CASE i < MaxTabs
        <5>1. OpenedLast'
          BY <1>3, <3>0, <4>1, <4>2 DEF OpenedLast
        <5>2. merging'.captured = SubSeq(HadTabs, 1, (i + 1) - 1) /\ i + 1 \in 1..MaxTabs /\ (i + 1) - 1 = i /\ i + 1 # 1
          BY <1>5, <3>0, <4>3, <4>4
        <5>3. WalkInv'
          BY <1>1, <1>2, <1>4, <2>1, <3>0, <4>1, <4>2, <4>4, <5>1, <5>2 DEF WalkInv
        <5> QED
          BY <1>1, <1>3, <5>3 DEF CaptureInv
      <4>5. CASE ~(i < MaxTabs)
        <5>1. Whole = i
          BY <1>5, <3>0, <4>2, <4>5 DEF Whole
        <5>2. BackInv'
          BY <1>1, <1>2, <1>4, <3>0, <4>1, <4>3, <4>5, <5>1 DEF BackInv
        <5> QED
          BY <1>1, <1>3, <5>2 DEF CaptureInv
      <4> QED
        BY <4>4, <4>5
    <3> QED
      BY <3>2, <3>3
  <2> QED
    BY <1>2, <2>2, <2>3, <2>4 DEF LookInv
<1> QED
  BY <1>6, <1>7, <1>8

\* VS Code copies the path of what is in front, if it has one.
LEMMA CopyCarriedOut ==
  ASSUME SidesKept, current = Source, sent = <<Command("copyPath", 0)>>, CarriesOut
  PROVE  /\ sent' = <<>> /\ groups' = groups /\ current' = current /\ merging' = merging /\ writable' = writable
         /\ clip' = IF HadTabs[FrontNow] \in Pathless THEN clip ELSE HadTabs[FrontNow]
<1> DEFINE c == Head(sent)  g == groups[current]
<1>1. c = Command("copyPath", 0) /\ c.verb = "copyPath"
  BY DEF Command
<1>2. g.tabs = HadTabs /\ g.active = FrontNow /\ FrontNow \in 1..Len(HadTabs)
  BY DEF SidesKept, Group
<1>3. /\ HadTabs # <<>> /\ HadTabs[FrontNow] # NoPath
  BY <1>2, TabFacts DEF SidesKept
<1>4. ActiveTab(g) = HadTabs[FrontNow]
  BY <1>2, <1>3 DEF ActiveTab
<1>5. /\ clip' = IF c.verb = "copyPath" /\ PathOf(ActiveTab(g)) # NoPath THEN PathOf(ActiveTab(g)) ELSE clip
      /\ groups' = groups /\ current' = current /\ merging' = merging /\ writable' = writable /\ sent' = Tail(sent)
  <2> HIDE DEF g
  <2>1. c.verb \notin {"show", "split", "closeActive", "openIndex", "openPath", "keep", "closeOthers"}
    BY <1>1
  <2> QED
    BY <2>1 DEF CarriesOut, g
<1>6. clip' = IF HadTabs[FrontNow] \in Pathless THEN clip ELSE HadTabs[FrontNow]
  BY <1>1, <1>3, <1>4, <1>5 DEF PathOf
<1> QED
  BY <1>5, <1>6

\* VS Code brings the i-th tab to the front, if there is one.
LEMMA IndexCarriedOut ==
  ASSUME SidesKept, current = Source, NEW i, sent = <<Command("openIndex", i)>>, CarriesOut
  PROVE  /\ sent' = <<>> /\ current' = current /\ merging' = merging /\ clip' = clip
         /\ groups' = <<groups'[Source], groups[Target], groups[SplitOff]>>
         /\ groups'[Source] = Group(HadTabs, IF i \in 1..Len(HadTabs) THEN i ELSE FrontNow)
<1> DEFINE c == Head(sent)  g == groups[current]
<1>1. c.verb = "openIndex" /\ c.arg = i /\ sent' = <<>>
  BY DEF Command, CarriesOut
<1>2. /\ current' = current /\ merging' = merging /\ clip' = clip
      /\ groups' = [groups EXCEPT ![current] = AtIndex(g, c.arg)]
  <2> HIDE DEF g
  <2> QED
    BY <1>1 DEF CarriesOut, g
<1>3. g = Group(HadTabs, FrontNow) /\ DOMAIN HadTabs = 1..Len(HadTabs)
  BY TabFacts DEF SidesKept
<1>4. AtIndex(g, i) = Group(HadTabs, IF i \in 1..Len(HadTabs) THEN i ELSE FrontNow)
  BY <1>3 DEF AtIndex, Group
<1>5. groups' = [groups EXCEPT ![Source] = Group(HadTabs, IF i \in 1..Len(HadTabs) THEN i ELSE FrontNow)]
  BY <1>1, <1>2, <1>4
<1> QED
  BY <1>1, <1>2, <1>5 DEF SidesKept, Source, Target, SplitOff

\* Another tab in front is all that changes in the source.
LEMMA TabOpenedKeepsSides ==
  ASSUME SidesKept, NEW n \in 1..Len(HadTabs), merging' = merging,
         groups' = <<groups'[Source], groups[Target], groups[SplitOff]>>, groups'[Source] = Group(HadTabs, n)
  PROVE  SidesKept' /\ FrontNow' = n /\ groups'[SplitOff] = groups[SplitOff]
<1>1. HadTabs' = HadTabs /\ HadActive' = HadActive
  BY SameHad
<1>2. FrontNow' = n
  BY DEF FrontNow, Group
<1>3. groups'[Target] = groups[Target] /\ groups'[SplitOff] = groups[SplitOff]
  BY DEF Source, Target, SplitOff
<1> QED
  BY <1>1, <1>2, <1>3 DEF SidesKept, Group

\* While the paths are read, VS Code carries out what was sent, to the source.
LEMMA CarriedOutWhileCapturing ==
  ASSUME CaptureInv, writable \/ AllHavePaths, CarriesOut
  PROVE  CaptureInv'
<1>1. merging' = merging /\ sent # <<>> /\ SidesKept /\ current = Source
  BY DEF CarriesOut, CaptureInv
<1>2. HadTabs' = HadTabs /\ HadActive' = HadActive /\ Whole' = Whole /\ ShownOfWhole' = ShownOfWhole
  BY <1>1, SameHad
<1>3. \/ merging.at = "settle" /\ sent = <<Command("copyPath", 0)>> /\ (writable => clip = Probe)
         /\ (LookInv \/ (WalkInv /\ OpenedNext))
      \/ merging.at = "settleTab" /\ sent = <<Command("openIndex", merging.index)>> /\ OpenedLast /\ WalkInv
      \/ merging.at = "settleBack" /\ sent = <<Command("openIndex", ShownOfWhole)>> /\ BackInv
  BY <1>1 DEF CaptureInv, LookInv, WalkInv, BackInv, GivesBackInv, AskInv
<1>4. CASE /\ merging.at = "settle" /\ sent = <<Command("copyPath", 0)>> /\ (writable => clip = Probe)
           /\ (LookInv \/ (WalkInv /\ OpenedNext))
  <2>1. /\ sent' = <<>> /\ groups' = groups /\ current' = current
        /\ clip' = IF HadTabs[FrontNow] \in Pathless THEN clip ELSE HadTabs[FrontNow]
    BY <1>1, <1>4, CopyCarriedOut
  <2>2. SidesKept' /\ FrontNow' = FrontNow /\ groups'[SplitOff] = NoGroup
    BY <1>1, <2>1, SidesStay DEF CaptureInv
  <2>3. FrontNow \in DOMAIN HadTabs
    BY <1>1, TabFacts DEF SidesKept
  <2>4. TabIsRead'
    BY <1>2, <1>4, <2>1, <2>2, <2>3 DEF TabIsRead, AllHavePaths
  <2>5. AskInv'
    BY <1>1, <1>4, <2>1, <2>4 DEF AskInv
  <2>6. LookInv => LookInv'
    BY <1>1, <1>2, <2>2, <2>5 DEF LookInv
  <2>7. WalkInv /\ OpenedNext => WalkInv'
    BY <1>1, <1>2, <2>2, <2>5 DEF WalkInv, OpenedNext
  <2> QED
    BY <1>1, <1>4, <2>1, <2>2, <2>6, <2>7 DEF CaptureInv
<1>5. CASE merging.at = "settleTab" /\ sent = <<Command("openIndex", merging.index)>> /\ OpenedLast /\ WalkInv
  <2>1. PICK i : i = merging.index
    OBVIOUS
  <2> DEFINE n == IF i \in 1..Len(HadTabs) THEN i ELSE FrontNow
  <2>2. /\ sent' = <<>> /\ current' = current /\ clip' = clip
        /\ groups' = <<groups'[Source], groups[Target], groups[SplitOff]>>
        /\ groups'[Source] = Group(HadTabs, n)
    BY <1>1, <1>5, <2>1, IndexCarriedOut
  <2>3. /\ n \in 1..Len(HadTabs) /\ Len(HadTabs) \in Nat /\ i \in 1..MaxTabs /\ MaxTabs \in Nat /\ Len(HadTabs) >= 1
        /\ i - 1 <= Len(HadTabs) /\ (i > 1 => FrontNow = i - 1)
    BY <1>1, <1>5, <2>1, TabFacts DEF SidesKept, WalkInv, OpenedLast
  <2>4. n = IF i <= Len(HadTabs) THEN i ELSE Len(HadTabs)
    BY <2>3
  <2>5. PICK m : m = n
    OBVIOUS
  <2>6. SidesKept' /\ FrontNow' = m /\ groups'[SplitOff] = groups[SplitOff]
    BY <1>1, <2>2, <2>3, <2>5, TabOpenedKeepsSides
  <2>7. OpenedNext'
    BY <1>1, <1>2, <2>1, <2>4, <2>5, <2>6 DEF OpenedNext
  <2>8. WalkInv'
    BY <1>1, <1>2, <1>5, <2>2, <2>7 DEF WalkInv
  <2> QED
    BY <1>1, <2>2, <2>6, <2>8 DEF CaptureInv
<1>6. CASE merging.at = "settleBack" /\ sent = <<Command("openIndex", ShownOfWhole)>> /\ BackInv
  <2>1. PICK i : i = ShownOfWhole
    OBVIOUS
  <2>2. i \in 1..Len(HadTabs)
    BY <1>1, <2>1, TabFacts DEF SidesKept
  <2>3. /\ sent' = <<>> /\ current' = current /\ clip' = clip
        /\ groups' = <<groups'[Source], groups[Target], groups[SplitOff]>>
        /\ groups'[Source] = Group(HadTabs, i)
    BY <1>1, <1>6, <2>1, <2>2, IndexCarriedOut
  <2>4. SidesKept' /\ groups'[SplitOff] = groups[SplitOff]
    BY <1>1, <2>2, <2>3, TabOpenedKeepsSides
  <2>5. BackInv'
    BY <1>1, <1>2, <1>6, <2>3 DEF BackInv
  <2> QED
    BY <1>1, <2>3, <2>4, <2>5 DEF CaptureInv
<1> QED
  BY <1>3, <1>4, <1>5, <1>6

\* The call begins where the source stands.
LEMMA BeginsKeeps ==
  ASSUME GroupInv, NEW scope, scope \in {"buffer", "group", "terminal"}, BeginsMerge(scope)
  PROVE  CaptureInv'
<1>1. PICK tabs \in Tabs0 : \E i \in DOMAIN tabs : groups = <<Group(tabs, i), Group(<<TargetTab>>, 1), NoGroup>>
  BY DEF GroupInv, BeginsMerge
<1>2. PICK i \in DOMAIN tabs : groups = <<Group(tabs, i), Group(<<TargetTab>>, 1), NoGroup>>
  BY <1>1
<1>3. tabs \in Seq(STRING \ {Probe, Text, Image, Late, NoPath}) /\ i \in 1..Len(tabs)
  BY <1>2, MergeAssumption
<1>4. /\ sent = <<>> /\ current = Source /\ sent' = sent /\ current' = current /\ groups' = groups
      /\ merging'.at = (IF scope = "terminal" THEN "prepared" ELSE "probe") /\ merging'.scope = scope
      /\ merging'.next = "original" /\ merging'.captured = <<>> /\ merging'.index = 1 /\ merging'.last = NoPath
      /\ merging'.had = groups[Source]
  BY DEF GroupInv, BeginsMerge, Merging, NoMerging
<1>5. HadTabs' = tabs /\ HadActive' = i /\ FrontNow' = i
  BY <1>2, <1>4 DEF HadTabs, HadActive, FrontNow, Group, Source
<1>6. SidesKept'
  BY <1>2, <1>3, <1>4, <1>5 DEF SidesKept, Group, Source, Target, SplitOff
<1>7. groups'[SplitOff] = NoGroup
  BY <1>2, <1>4 DEF SplitOff
<1>8. CASE scope = "terminal"
  BY <1>4, <1>6, <1>7, <1>8 DEF CaptureInv, GivesBackInv, CapturedAll
<1>9. CASE scope # "terminal"
  <2>1. AskInv'
    BY <1>4, <1>9 DEF AskInv
  <2>2. LookInv'
    BY <1>4, <1>5, <1>9, <2>1 DEF LookInv
  <2> QED
    BY <1>4, <1>6, <1>7, <2>2 DEF CaptureInv
<1> QED
  BY <1>8, <1>9

\* The commands of a merge, one by one.
OfTerminal(C) == Len(C) = 1 /\ C[1] = Command("terminalToPanel", 0)
OfBuffer(C, tab) ==
  /\ Len(C) = 4 /\ C[1] = Command("split", 0) /\ C[2] = Command("openPath", tab)
  /\ C[3] = Command("keep", 0) /\ C[4] = Command("closeOthers", 0)
OfGroup(C, tabs, n, shown) ==
  /\ Len(C) = 2 * n + 3 /\ C[1] = Command("split", 0) /\ C[2] = Command("closeActive", 0)
  /\ \A j \in 1..n : C[2 * j + 1] = Command("openPath", tabs[j]) /\ C[2 * j + 2] = Command("keep", 0)
  /\ C[2 * n + 3] = Command("openIndex", shown)

\* The commands that open paths: an opening and a keeping for each.
LEMMA PathsOpened ==
  ASSUME NEW S, NEW paths \in Seq(S), NEW n \in Nat, n = Len(paths)
  PROVE  /\ IsSeq(OpenAll(paths)) /\ Len(OpenAll(paths)) = 2 * n
         /\ \A j \in 1..n : /\ OpenAll(paths)[2 * j - 1] = Command("openPath", paths[j])
                            /\ OpenAll(paths)[2 * j] = Command("keep", 0)
<1> DEFINE all == OpenAll(paths)
<1>1. \A k \in 1..2 * n : all[k] = OpenPath(paths[(k + 1) \div 2])[2 - (k % 2)]
  BY DEF OpenAll
<1>2. \A k \in 1..2 * n : all[k] \in {all[i] : i \in 1..2 * n}
  OBVIOUS
<1>3. all = [k \in 1..2 * n |-> all[k]]
  BY DEF OpenAll
<1>4. all \in Seq({all[i] : i \in 1..2 * n}) /\ Len(all) = 2 * n
  <2>1. 2 * n \in Nat
    OBVIOUS
  <2> HIDE DEF all
  <2> QED
    BY <1>2, <1>3, <2>1, IsASeq
<1>5. ASSUME NEW path PROVE OpenPath(path)[1] = Command("openPath", path) /\ OpenPath(path)[2] = Command("keep", 0)
  BY DEF OpenPath
<1> HIDE DEF all
<1>6. ASSUME NEW j \in 1..n PROVE all[2 * j - 1] = Command("openPath", paths[j]) /\ all[2 * j] = Command("keep", 0)
  <2>1. 2 * j - 1 \in 1..2 * n /\ ((2 * j - 1) + 1) \div 2 = j /\ 2 - ((2 * j - 1) % 2) = 1
    OBVIOUS
  <2>2. 2 * j \in 1..2 * n /\ ((2 * j) + 1) \div 2 = j /\ 2 - ((2 * j) % 2) = 2
    OBVIOUS
  <2>3. all[2 * j - 1] = OpenPath(paths[j])[1]
    BY <1>1, <2>1, Zenon
  <2>4. all[2 * j] = OpenPath(paths[j])[2]
    BY <1>1, <2>2, Zenon
  <2> QED
    BY <1>5, <2>3, <2>4
<1> QED
  BY <1>4, <1>6 DEF IsSeq, all

\* A sequence after one element.
LEMMA Prepended ==
  ASSUME NEW T, NEW a \in T, NEW v \in Seq(T)
  PROVE  /\ <<a>> \o v \in Seq(T) /\ Len(<<a>> \o v) = Len(v) + 1 /\ (<<a>> \o v)[1] = a
         /\ \A k \in 1..Len(v) : (<<a>> \o v)[k + 1] = v[k]
<1>1. <<a>> \in Seq(T) /\ Len(<<a>>) = 1 /\ <<a>>[1] = a
  OBVIOUS
<1>2. PICK h : h = <<a>>
  OBVIOUS
<1>3. h \in Seq(T) /\ Len(h) = 1 /\ h[1] = a
  BY <1>1, <1>2
<1>4. /\ h \o v \in Seq(T) /\ Len(h \o v) = Len(v) + 1 /\ (h \o v)[1] = a
      /\ \A k \in 1..Len(v) : (h \o v)[k + 1] = v[k]
  <2>1. /\ h \o v \in Seq(T) /\ Len(h \o v) = Len(h) + Len(v)
        /\ \A i \in 1..Len(h) + Len(v) : (h \o v)[i] = IF i <= Len(h) THEN h[i] ELSE v[i - Len(h)]
    BY <1>3, ConcatProperties
  <2>2. Len(v) \in Nat
    OBVIOUS
  <2>3. ASSUME NEW k \in 1..Len(v) PROVE (h \o v)[k + 1] = v[k]
    <3>1. k + 1 \in 1..Len(h) + Len(v) /\ ~(k + 1 <= Len(h)) /\ (k + 1) - Len(h) = k
      BY <1>3, <2>2
    <3> QED
      BY <2>1, <3>1, Zenon
  <2>4. (h \o v)[1] = a
    <3>1. 1 \in 1..Len(h) + Len(v) /\ 1 <= Len(h)
      BY <1>3, <2>2
    <3> QED
      BY <1>3, <2>1, <3>1, Zenon
  <2>5. Len(h \o v) = Len(v) + 1
    BY <1>3, <2>1, <2>2
  <2> QED
    BY <2>1, <2>3, <2>4, <2>5
<1> QED
  BY <1>2, <1>4

Around(a, b, s, z) == <<a>> \o (<<b>> \o s \o <<z>>)
\* A sequence between others, element by element.
LEMMA Enclosed ==
  ASSUME NEW a, NEW b, NEW s, IsSeq(s), NEW z, NEW all, all = Around(a, b, s, z)
  PROVE  /\ IsSeq(all) /\ Len(all) = Len(s) + 3 /\ all[1] = a /\ all[2] = b /\ all[Len(s) + 3] = z
         /\ \A k \in 1..Len(s) : all[k + 2] = s[k]
<1>1. PICK S : s \in Seq(S)
  BY DEF IsSeq
<1> DEFINE T == S \cup {a, b, z}
<1>2. s \in Seq(T)
  BY <1>1, SeqMonotonic
<1>3. a \in T /\ b \in T /\ z \in T
  OBVIOUS
<1> HIDE DEF T
<1>4. <<a>> \in Seq(T) /\ <<b>> \in Seq(T) /\ <<z>> \in Seq(T)
  BY <1>3
<1> DEFINE u == <<b>> \o s  v == u \o <<z>>
<1>5. u \in Seq(T) /\ Len(u) = Len(s) + 1 /\ u[1] = b /\ \A k \in 1..Len(s) : u[k + 1] = s[k]
  BY <1>2, <1>4
<1> HIDE DEF u
<1>6. v \in Seq(T) /\ Len(v) = Len(s) + 2 /\ v[1] = b /\ v[Len(s) + 2] = z /\ \A k \in 1..Len(s) : v[k + 1] = s[k]
  BY <1>2, <1>4, <1>5
<1> HIDE DEF v
<1>7. all \in Seq(T) /\ Len(all) = Len(s) + 3 /\ all[1] = a /\ all[2] = b /\ all[Len(s) + 3] = z
      /\ \A k \in 1..Len(s) : all[k + 2] = s[k]
  <2>1. Len(s) \in Nat
    BY <1>2
  <2>2. all \in Seq(T) /\ Len(all) = Len(v) + 1 /\ all[1] = a /\ \A k \in 1..Len(v) : all[k + 1] = v[k]
    <3>1. all = <<a>> \o v
      BY DEF u, v, Around
    <3>2. /\ <<a>> \o v \in Seq(T) /\ Len(<<a>> \o v) = Len(v) + 1 /\ (<<a>> \o v)[1] = a
          /\ \A k \in 1..Len(v) : (<<a>> \o v)[k + 1] = v[k]
      BY <1>3, <1>6, Prepended
    <3> QED
      BY <3>1, <3>2, Zenon
  <2>3. all[2] = v[1] /\ all[Len(s) + 3] = v[Len(s) + 2]
    BY <1>6, <2>1, <2>2
  <2>4. \A k \in 1..Len(s) : all[k + 2] = v[k + 1]
    BY <1>6, <2>1, <2>2
  <2> QED
    BY <1>6, <2>1, <2>2, <2>3, <2>4
<1> QED
  BY <1>7 DEF IsSeq

\* What is captured decides the commands.
LEMMA CommandsListed ==
  ASSUME SidesKept, CapturedAll
  PROVE  /\ IsSeq(MergeCommands) /\ merging.scope \in {"terminal", "buffer", "group"}
         /\ merging.scope = "terminal" => OfTerminal(MergeCommands)
         /\ merging.scope = "buffer" => OfBuffer(MergeCommands, HadTabs[HadActive])
         /\ merging.scope = "group" => OfGroup(MergeCommands, HadTabs, Whole, ShownOfWhole)
<1>1. CASE merging.scope = "terminal"
  <2>1. MergeCommands = <<Command("terminalToPanel", 0)>>
    BY <1>1 DEF MergeCommands, MoveTerminal
  <2>2. MergeCommands \in Seq({Command("terminalToPanel", 0)})
    BY <2>1
  <2> QED
    BY <1>1, <2>1, <2>2 DEF OfTerminal, IsSeq
<1>2. CASE merging.scope = "buffer"
  <2> DEFINE a == Command("split", 0)  b == Command("openPath", HadTabs[HadActive])
             c == Command("keep", 0)  d == Command("closeOthers", 0)
  <2>1. merging.captured[1] = HadTabs[HadActive]
    BY <1>2 DEF CapturedAll
  <2>2. MergeCommands = <<a>> \o (<<b, c>> \o <<d>>)
    BY <1>2, <2>1 DEF MergeCommands, OpenPath
  <2> HIDE DEF a, b, c, d
  <2> DEFINE T == {a, b, c, d}  x == <<b, c>> \o <<d>>
  <2>3. <<a>> \in Seq(T) /\ x \in Seq(T) /\ Len(x) = 3 /\ x[1] = b /\ x[2] = c /\ x[3] = d
    OBVIOUS
  <2> HIDE DEF T, x
  <2>4. MergeCommands \in Seq(T) /\ Len(MergeCommands) = 4 /\ MergeCommands[1] = a /\ MergeCommands[2] = x[1]
        /\ MergeCommands[3] = x[2] /\ MergeCommands[4] = x[3]
    <3>1. MergeCommands = <<a>> \o x
      BY <2>2 DEF x
    <3>2. a \in T
      BY DEF T
    <3> QED
      BY <2>3, <3>1, <3>2, Prepended
  <2>5. MergeCommands[2] = b /\ MergeCommands[3] = c /\ MergeCommands[4] = d
    BY <2>3, <2>4
  <2> QED
    BY <1>2, <2>4, <2>5 DEF OfBuffer, IsSeq, a, b, c, d
<1>3. CASE merging.scope = "group"
  <2> DEFINE paths == merging.captured  all == OpenAll(paths)  a == Command("split", 0)  b == Command("closeActive", 0)
             z == Command("openIndex", ShownOfWhole)
  <2>1. MergeCommands = Around(a, b, all, z)
    BY <1>3 DEF MergeCommands, CapturedAll, Around
  <2>2. Whole \in 1..Len(HadTabs) /\ Len(HadTabs) \in Nat /\ HadTabs \in Seq(STRING \ {Probe, Text, Image, Late, NoPath})
    BY TabFacts DEF SidesKept
  <2>3. paths \in Seq(STRING) /\ Len(paths) = Whole /\ \A j \in 1..Whole : paths[j] = HadTabs[j]
    <3>1. HadTabs \in Seq(STRING)
      BY <2>2, SeqMonotonic
    <3>2. \A i \in 1..Whole : HadTabs[i] \in STRING
      BY <2>2, <3>1
    <3>3. paths = SubSeq(HadTabs, 1, Whole)
      BY <1>3 DEF CapturedAll
    <3> QED
      BY <2>2, <3>2, <3>3, SubSeqProperties
  <2> HIDE DEF paths, a, b, z
  <2>4. /\ IsSeq(all) /\ Len(all) = 2 * Whole
        /\ \A j \in 1..Whole : all[2 * j - 1] = Command("openPath", paths[j]) /\ all[2 * j] = Command("keep", 0)
    <3>1. Whole \in Nat
      BY <2>2
    <3> QED
      BY <2>3, <3>1, PathsOpened, Zenon
  <2> HIDE DEF all
  <2>5. /\ IsSeq(MergeCommands) /\ Len(MergeCommands) = Len(all) + 3 /\ MergeCommands[1] = a /\ MergeCommands[2] = b
        /\ MergeCommands[Len(all) + 3] = z /\ \A k \in 1..Len(all) : MergeCommands[k + 2] = all[k]
    BY <2>1, <2>4, Enclosed
  <2>6. ASSUME NEW j \in 1..Whole
        PROVE  MergeCommands[2 * j + 1] = Command("openPath", HadTabs[j]) /\ MergeCommands[2 * j + 2] = Command("keep", 0)
    <3>1. 2 * j - 1 \in 1..Len(all) /\ 2 * j \in 1..Len(all) /\ (2 * j - 1) + 2 = 2 * j + 1
      BY <2>2, <2>4
    <3>2. MergeCommands[(2 * j - 1) + 2] = all[2 * j - 1] /\ MergeCommands[2 * j + 2] = all[2 * j]
      BY <2>5, <3>1, Zenon
    <3> QED
      BY <2>3, <2>4, <3>1, <3>2
  <2> QED
    BY <1>3, <2>4, <2>5, <2>6 DEF OfGroup, a, b, z
<1> QED
  BY <1>1, <1>2, <1>3 DEF CapturedAll

\* While the call goes on its commands stay, and so does what they did.
LEMMA CommandsStay ==
  ASSUME SameMerging
  PROVE  MergeCommands' = MergeCommands
  BY DEF SameMerging, MergeCommands, OpenAll, OpenPath, MoveTerminal, Command

\* What was placed stays placed while nobody touches the groups.
LEMMA PlacedStays ==
  ASSUME SameMerging, groups' = groups, current' = current, CapturedAll
  PROVE  CapturedAll' /\ \A k : PlacedSoFar(k) => PlacedSoFar(k)'
<1>1. /\ HadTabs' = HadTabs /\ HadActive' = HadActive /\ Whole' = Whole /\ ShownOfWhole' = ShownOfWhole
      /\ merging'.scope = merging.scope
  BY SameHad DEF SameMerging
<1>2. CapturedAll'
  BY <1>1 DEF CapturedAll, SameMerging
<1>3. ASSUME NEW k, PlacedSoFar(k) PROVE PlacedSoFar(k)'
  <2>1. NoSplit' <=> NoSplit
    BY DEF NoSplit
  <2>2. PlacedBuffer(k)' <=> PlacedBuffer(k)
    BY <1>1, <2>1 DEF PlacedBuffer, SplitHolds, BesideTarget, Group
  <2>3. PlacedGroup(k)' <=> PlacedGroup(k)
    BY <1>1, <2>1 DEF PlacedGroup, SplitHolds, FirstTabs, Group
  <2> QED
    BY <1>1, <1>3, <2>1, <2>2, <2>3 DEF PlacedSoFar
<1> QED
  BY <1>2, <1>3

\* Showing the target comes before all the commands.
LEMMA ShowsKeeps ==
  ASSUME IsMerging(merging), CaptureInv, ShowsTarget, ~merging.unshown
  PROVE  PlaceInv'
<1>1. /\ merging.at = "prepared" /\ SameMerging /\ ~merging'.unshown /\ merging'.at = "settleMerge" /\ merging'.todo = MergeCommands
      /\ groups' = groups /\ current' = current /\ sent' = Append(sent, Command("show", 0))
  BY DEF ShowsTarget, IsMerging, SameMerging
<1>2. sent = <<>> /\ CapturedAll
  BY <1>1 DEF CaptureInv, LookInv, WalkInv, BackInv, GivesBackInv, AskInv
<1>3. SidesKept' /\ groups'[SplitOff] = NoGroup
  BY <1>1, SidesStay DEF CaptureInv, SameMerging
<1>4. CapturedAll'
  BY <1>1, <1>2, PlacedStays
<1>5. MergeCommands' = MergeCommands
  BY <1>1, CommandsStay
<1>6. sent' = <<Command("show", 0)>>
  BY <1>1, <1>2
<1> QED
  BY <1>1, <1>3, <1>4, <1>5, <1>6 DEF PlaceInv

\* A stretch of the commands: how long it is, its ends, and how it shrinks and grows.
LEMMA Stretch ==
  ASSUME NEW C, IsSeq(C), NEW a \in 0..Len(C), NEW b \in 0..Len(C), a <= b
  PROVE  /\ Len(C) \in Nat
         /\ SubSeq(C, a + 1, b) = <<>> <=> a = b
         /\ a < b => Head(SubSeq(C, a + 1, b)) = C[a + 1] /\ Tail(SubSeq(C, a + 1, b)) = SubSeq(C, a + 2, b)
         /\ b < Len(C) => Append(SubSeq(C, a + 1, b), C[b + 1]) = SubSeq(C, a + 1, b + 1)
<1>1. PICK S : C \in Seq(S)
  BY DEF IsSeq
<1>2. Len(C) \in Nat /\ a \in Nat /\ b \in Nat
  BY <1>1
<1>3. \A i \in a + 1..b : C[i] \in S
  BY <1>1, <1>2
<1>4. SubSeq(C, a + 1, b) \in Seq(S) /\ Len(SubSeq(C, a + 1, b)) = b - a
  <2>1. a + 1 \in Int /\ b \in Int
    BY <1>2
  <2>2. SubSeq(C, a + 1, b) \in Seq(S) /\ Len(SubSeq(C, a + 1, b)) = IF a + 1 <= b THEN b - (a + 1) + 1 ELSE 0
    BY <1>3, <2>1, SubSeqProperties
  <2> QED
    BY <1>2, <2>2
<1>5. SubSeq(C, a + 1, b) = <<>> <=> a = b
  BY <1>2, <1>4
<1>6. a < b => Head(SubSeq(C, a + 1, b)) = C[a + 1] /\ Tail(SubSeq(C, a + 1, b)) = SubSeq(C, a + 2, b)
  <2> SUFFICES ASSUME a < b PROVE Head(SubSeq(C, a + 1, b)) = C[a + 1] /\ Tail(SubSeq(C, a + 1, b)) = SubSeq(C, a + 2, b)
    OBVIOUS
  <2>1. a + 1 \in 1..Len(C) /\ b \in a + 1..Len(C) /\ (a + 1) + 1 = a + 2
    BY <1>2
  <2>2. Head(SubSeq(C, a + 1, b)) = C[a + 1] /\ Tail(SubSeq(C, a + 1, b)) = SubSeq(C, (a + 1) + 1, b)
    BY <1>1, <2>1, HeadTailOfSubSeq
  <2> QED
    BY <2>1, <2>2
<1>7. b < Len(C) => Append(SubSeq(C, a + 1, b), C[b + 1]) = SubSeq(C, a + 1, b + 1)
  <2> SUFFICES ASSUME b < Len(C) PROVE Append(SubSeq(C, a + 1, b), C[b + 1]) = SubSeq(C, a + 1, b + 1)
    OBVIOUS
  <2>1. a + 1 \in 1..Len(C) /\ b + 1 \in a + 1..Len(C) /\ (b + 1) - 1 = b /\ C[b + 1] \in S
    BY <1>1, <1>2
  <2>2. SubSeq(C, a + 1, b + 1) = SubSeq(C, a + 1, (b + 1) - 1) \o <<C[b + 1]>>
    BY <1>1, <2>1, SubSeqRecursiveSecond
  <2> QED
    BY <1>4, <2>1, <2>2, AppendIsConcat
<1> QED
  BY <1>2, <1>5, <1>6, <1>7

\* The call waits until VS Code has done what it was told.
LEMMA MergeWaitKeeps ==
  ASSUME IsMerging(merging), PlaceInv, MergeSettles, ~meddled'
  PROVE  PlaceInv'
<1>1. /\ SameMerging /\ merging.at = "settleMerge" /\ merging'.at = "merge" /\ merging'.todo = merging.todo
      /\ merging'.unshown = merging.unshown /\ merging'.scope = merging.scope
      /\ groups' = groups /\ current' = current /\ sent' = sent /\ sent = <<>>
  BY GoesOn DEF MergeSettles, Settles, SameMerging
<1>2. SidesKept /\ CapturedAll
  BY DEF PlaceInv
<1>3. PICK a, b \in 0..Len(MergeCommands) : Between(a, b)
  BY <1>1 DEF PlaceInv
<1>4. a = b /\ a <= b
  <2>1. IsSeq(MergeCommands)
    BY <1>2, CommandsListed
  <2>2. PICK C : C = MergeCommands
    OBVIOUS
  <2>3. a <= b /\ sent = SubSeq(C, a + 1, b)
    BY <1>3, <2>2 DEF Between
  <2>4. SubSeq(C, a + 1, b) = <<>> <=> a = b
    BY <1>3, <2>1, <2>2, <2>3, Stretch
  <2> QED
    BY <1>1, <2>3, <2>4
<1>5. SidesKept'
  BY <1>1, <1>2, SidesStay DEF SameMerging
<1>6. CapturedAll' /\ PlacedSoFar(a)'
  BY <1>1, <1>2, <1>3, PlacedStays DEF Between
<1>7. MergeCommands' = MergeCommands
  BY <1>1, CommandsStay
<1>8. Between(a, b)'
  BY <1>1, <1>3, <1>4, <1>6, <1>7 DEF Between
<1> QED
  BY <1>3, <1>5, <1>6, <1>7, <1>8 DEF PlaceInv

\* The last command opens no path.
LEMMA LastCommand ==
  ASSUME SidesKept, CapturedAll
  PROVE  Len(MergeCommands) >= 1 /\ MergeCommands[Len(MergeCommands)].verb # "openPath"
<1>1. Whole \in 1..Len(HadTabs) /\ Len(HadTabs) \in Nat
  BY TabFacts DEF SidesKept
<1> QED
  BY <1>1, CommandsListed DEF OfTerminal, OfBuffer, OfGroup, Command

\* The next command is sent behind those under way.
LEMMA MergesKeeps ==
  ASSUME IsMerging(merging), NetInv, Reaches, PlaceInv, MergesNext
  PROVE  PlaceInv'
<1>1. /\ SameMerging /\ merging.at = "merge" /\ groups' = groups /\ current' = current
      /\ merging'.unshown = merging.unshown /\ merging'.scope = merging.scope
  BY DEF MergesNext, Merging, IsMerging, SameMerging
<1>2. SidesKept /\ CapturedAll
  BY DEF PlaceInv
<1>3. PICK a, b \in 0..Len(MergeCommands) : Between(a, b)
  BY <1>1 DEF PlaceInv
<1>4. SidesKept'
  BY <1>1, <1>2, SidesStay DEF SameMerging
<1>5. CapturedAll' /\ PlacedSoFar(a)'
  BY <1>1, <1>2, <1>3, PlacedStays DEF Between
<1>6. MergeCommands' = MergeCommands
  BY <1>1, CommandsStay
<1>7. PICK C : C = MergeCommands
  OBVIOUS
<1>8. IsSeq(C) /\ Len(C) >= 1 /\ C[Len(C)].verb # "openPath"
  BY <1>2, <1>7, CommandsListed, LastCommand
<1>9. /\ a \in 0..Len(C) /\ b \in 0..Len(C) /\ a <= b /\ sent = SubSeq(C, a + 1, b)
      /\ ~merging.unshown => merging.todo = SubSeq(C, b + 1, Len(C))
      /\ merging.unshown => merging.todo = <<>> /\ a = b /\ b + 1 = Len(C) /\ merging.scope = "group"
      /\ a = b \/ C[b].verb = "openPath"
  BY <1>1, <1>3, <1>7 DEF Between
<1>10. Len(C) \in Nat
  BY <1>8, <1>9, Stretch
<1>11. /\ ~merging.unshown => (merging.todo = <<>> <=> b = Len(C))
       /\ ~merging.unshown /\ b < Len(C) => Head(merging.todo) = C[b + 1] /\ Tail(merging.todo) = SubSeq(C, b + 2, Len(C))
  <2>1. PICK n : n = Len(C)
    OBVIOUS
  <2>2. n \in 0..Len(C) /\ b <= n /\ b \in 0..Len(C) /\ (b < n <=> b # n)
    BY <1>9, <1>10, <2>1
  <2>3. /\ SubSeq(C, b + 1, n) = <<>> <=> b = n
        /\ b < n => Head(SubSeq(C, b + 1, n)) = C[b + 1] /\ Tail(SubSeq(C, b + 1, n)) = SubSeq(C, b + 2, n)
    BY <1>8, <2>2, Stretch
  <2> QED
    BY <1>9, <2>1, <2>3
<1>12. CASE merging.todo = <<>>
  <2>1. sent' = sent /\ merging'.at = "done" /\ merging'.todo = merging.todo
    BY <1>12 DEF MergesNext, Merging, IsMerging
  <2>2. a = b /\ (~merging.unshown => b = Len(C))
    BY <1>8, <1>9, <1>11, <1>12
  <2>3. Between(a, b)'
    <3>1. MergeCommands' = C /\ sent' = SubSeq(C, a + 1, b) /\ PlacedSoFar(a)' /\ a <= b
      BY <1>5, <1>6, <1>7, <1>9, <2>1
    <3>2. /\ ~merging'.unshown => merging'.todo = SubSeq(C, b + 1, Len(C))
          /\ merging'.unshown => merging'.scope = "group" /\ merging'.todo = <<>> /\ b + 1 = Len(C)
      BY <1>1, <1>9, <2>1
    <3>3. merging'.at = "done" /\ a = b /\ (~merging'.unshown => b = Len(C))
      BY <1>1, <2>1, <2>2
    <3> QED
      BY <3>1, <3>2, <3>3 DEF Between
  <2> QED
    BY <1>3, <1>4, <1>5, <1>6, <2>3 DEF PlaceInv
<1>13. CASE merging.todo # <<>>
  <2>1. /\ b < Len(C) /\ Head(merging.todo) = C[b + 1] /\ Tail(merging.todo) = SubSeq(C, b + 2, Len(C))
        /\ ~merging.unshown
    <3>0. ~merging.unshown
      BY <1>9, <1>13
    <3>1. b # Len(C)
      BY <1>11, <1>13, <3>0
    <3>2. b < Len(C)
      BY <1>9, <1>10, <3>1
    <3> QED
      BY <1>11, <3>0, <3>2
  <2>2. /\ Send(Head(merging.todo)) /\ merging'.todo = Tail(merging.todo)
        /\ merging'.at = IF Head(merging.todo).verb = "openPath" THEN "merge" ELSE "settleMerge"
    BY <1>13 DEF MergesNext, IsMerging
  <2>3. sent' = Append(sent, C[b + 1])
    BY <2>1, <2>2, SendReaches
  <2>4. sent' = SubSeq(C, a + 1, b + 1)
    BY <1>8, <1>9, <2>1, <2>3, Stretch
  <2>5. b + 1 \in 0..Len(C) /\ a <= b + 1 /\ (b + 1) + 1 = b + 2
    BY <1>9, <1>10, <2>1
  <2>6. Between(a, b + 1)'
    <3>1. /\ MergeCommands' = C /\ sent' = SubSeq(C, a + 1, b + 1) /\ PlacedSoFar(a)' /\ a <= b + 1
          /\ (b + 1) + 1 = b + 2 /\ ~merging'.unshown
      BY <1>1, <1>5, <1>6, <1>7, <2>1, <2>4, <2>5
    <3>2. /\ merging'.todo = SubSeq(C, b + 2, Len(C)) /\ merging'.at # "done"
          /\ merging'.at = "merge" => C[b + 1].verb = "openPath"
      BY <2>1, <2>2
    <3> QED
      BY <3>1, <3>2 DEF Between
  <2> QED
    BY <1>4, <1>5, <1>6, <1>7, <1>9, <2>5, <2>6 DEF PlaceInv
<1> QED
  BY <1>12, <1>13

\* The last command of a group may be given up: all the others are sent.
LEMMA GivenUpKeeps ==
  ASSUME IsMerging(merging), PlaceInv, SendFails, OnlyShows
  PROVE  PlaceInv'
<1>1. /\ SameMerging /\ merging.at = "merge" /\ merging'.at = "settleMerge" /\ merging'.todo = <<>> /\ merging'.unshown
      /\ groups' = groups /\ current' = current /\ sent' = sent /\ merging'.scope = merging.scope
      /\ Len(merging.todo) = 1 /\ Head(merging.todo).verb = "openIndex"
  BY DEF SendFails, OnlyShows, IsMerging, SameMerging
<1>2. SidesKept /\ CapturedAll
  BY DEF PlaceInv
<1>3. PICK a, b \in 0..Len(MergeCommands) : Between(a, b)
  BY <1>1 DEF PlaceInv
<1>4. SidesKept' /\ CapturedAll' /\ PlacedSoFar(a)' /\ MergeCommands' = MergeCommands
  BY <1>1, <1>2, <1>3, SidesStay, PlacedStays, CommandsStay DEF Between, SameMerging
<1>5. PICK C : C = MergeCommands
  OBVIOUS
<1>6. /\ IsSeq(C) /\ merging.scope \in {"terminal", "buffer", "group"}
      /\ merging.scope = "terminal" => OfTerminal(C)
      /\ merging.scope = "buffer" => OfBuffer(C, HadTabs[HadActive])
  BY <1>2, <1>5, CommandsListed
<1>7. /\ a \in 0..Len(C) /\ b \in 0..Len(C) /\ a <= b /\ sent = SubSeq(C, a + 1, b)
      /\ ~merging.unshown => merging.todo = SubSeq(C, b + 1, Len(C))
      /\ merging.unshown => merging.todo = <<>>
  BY <1>3, <1>5 DEF Between
<1>8. merging.todo = SubSeq(C, b + 1, Len(C)) /\ Len(C) \in Nat
  <2>1. Len(<<>>) = 0
    OBVIOUS
  <2>2. Len(C) \in Nat
    BY <1>6, <1>7, Stretch
  <2> QED
    BY <1>1, <1>7, <2>1, <2>2
<1>9. b + 1 = Len(C) /\ Head(merging.todo) = C[b + 1]
  <2>1. PICK S : C \in Seq(S)
    BY <1>6 DEF IsSeq
  <2>2. \A i \in b + 1..Len(C) : C[i] \in S
    BY <1>7, <1>8, <2>1
  <2>3. b + 1 \in Int /\ Len(C) \in Int
    BY <1>7, <1>8
  <2>4. Len(SubSeq(C, b + 1, Len(C))) = IF b + 1 <= Len(C) THEN Len(C) - (b + 1) + 1 ELSE 0
    BY <2>2, <2>3, SubSeqProperties
  <2>5. b < Len(C) /\ b + 1 = Len(C)
    BY <1>1, <1>7, <1>8, <2>4
  <2>6. PICK n : n = Len(C)
    OBVIOUS
  <2>7. n \in 0..Len(C) /\ b \in 0..Len(C) /\ b <= n /\ b < n
    BY <1>7, <1>8, <2>5, <2>6
  <2>8. Head(SubSeq(C, b + 1, n)) = C[b + 1]
    BY <1>6, <2>7, Stretch
  <2> QED
    BY <1>8, <2>5, <2>6, <2>8
<1>10. merging.scope = "group"
  <2>1. C[Len(C)].verb = "openIndex"
    BY <1>1, <1>9
  <2>2. OfTerminal(C) => C[Len(C)].verb = "terminalToPanel"
    BY DEF OfTerminal, Command
  <2>3. \A tab : OfBuffer(C, tab) => C[Len(C)].verb = "closeOthers"
    BY DEF OfBuffer, Command
  <2> QED
    BY <1>6, <2>1, <2>2, <2>3
<1>11. Between(a, b)'
  BY <1>1, <1>4, <1>5, <1>7, <1>9, <1>10 DEF Between
<1> QED
  BY <1>3, <1>4, <1>11 DEF PlaceInv

\* What a command makes of the group it acts on.
AfterCommand(c, g) ==
  CASE c.verb = "openIndex" -> AtIndex(g, c.arg)
    [] c.verb = "openPath" -> Opened(g, c.arg)
    [] c.verb = "keep" -> [g EXCEPT !.preview = 0]
    [] c.verb = "closeOthers" -> Group(<<ActiveTab(g)>>, 1)
    [] c.verb = "closeActive" -> Group(RemoveAt(g.tabs, g.active), IF Len(g.tabs) = 1 THEN 0 ELSE 1)
GroupCommands == {"openIndex", "openPath", "keep", "closeOthers", "closeActive"}

\* What a command does, one kind at a time.
LEMMA CommandEffect ==
  ASSUME CarriesOut, NEW c, c = Head(sent), NEW g, g = groups[current]
  PROVE  /\ sent' = Tail(sent) /\ merging' = merging
         /\ c.verb = "show" => current' = Target /\ groups' = groups
         /\ c.verb = "split" => current' = SplitOff /\ groups' = [groups EXCEPT ![SplitOff] = Group(<<ActiveTab(g)>>, 1)]
         /\ c.verb = "terminalToPanel" => current' = current /\ groups' = groups
         /\ c.verb \in GroupCommands /\ (c.verb = "closeActive" => ~closesEmpty) =>
              current' = current /\ groups' = [groups EXCEPT ![current] = AfterCommand(c, g)]
<1>1. /\ sent' = Tail(sent) /\ merging' = merging
      /\ current' = CASE c.verb = "show" -> Target
                      [] c.verb = "split" -> SplitOff
                      [] c.verb = "closeActive" /\ Len(g.tabs) = 1 /\ closesEmpty -> Target
                      [] OTHER -> current
      /\ groups' = CASE c.verb = "split" -> [groups EXCEPT ![SplitOff] = Group(<<ActiveTab(g)>>, 1)]
                     [] c.verb = "openIndex" -> [groups EXCEPT ![current] = AtIndex(g, c.arg)]
                     [] c.verb = "openPath" -> [groups EXCEPT ![current] = Opened(g, c.arg)]
                     [] c.verb = "keep" -> [groups EXCEPT ![current].preview = 0]
                     [] c.verb = "closeOthers" -> [groups EXCEPT ![current] = Group(<<ActiveTab(g)>>, 1)]
                     [] c.verb = "closeActive" -> [groups EXCEPT ![current] =
                           Group(RemoveAt(g.tabs, g.active), IF Len(g.tabs) = 1 THEN 0 ELSE 1)]
                     [] OTHER -> groups
  BY DEF CarriesOut
<1>2. CASE c.verb = "show"
  BY <1>1, <1>2 DEF GroupCommands
<1>3. CASE c.verb = "split"
  BY <1>1, <1>3 DEF GroupCommands
<1>4. CASE c.verb = "terminalToPanel"
  BY <1>1, <1>4 DEF GroupCommands
<1>5. CASE c.verb = "openIndex"
  BY <1>1, <1>5 DEF AfterCommand
<1>6. CASE c.verb = "openPath"
  BY <1>1, <1>6 DEF AfterCommand
<1>7. CASE c.verb = "keep"
  <2>1. groups' = [groups EXCEPT ![current] = [g EXCEPT !.preview = 0]]
    BY <1>1, <1>7
  <2> QED
    BY <1>1, <1>7, <2>1 DEF AfterCommand
<1>8. CASE c.verb = "closeOthers"
  BY <1>1, <1>8 DEF AfterCommand
<1>9. CASE c.verb = "closeActive"
  BY <1>1, <1>9 DEF AfterCommand
<1> QED
  BY <1>1, <1>2, <1>3, <1>4, <1>5, <1>6, <1>7, <1>8, <1>9 DEF GroupCommands

\* A change of the group split off leaves both sides alone.
LEMMA SplitChanges ==
  ASSUME SidesKept, merging' = merging, NEW g, groups' = [groups EXCEPT ![SplitOff] = g]
  PROVE  SidesKept' /\ groups'[SplitOff] = g
<1>1. HadTabs' = HadTabs /\ HadActive' = HadActive
  BY SameHad
<1>2. groups' = <<groups[Source], groups[Target], g>>
  BY DEF SidesKept, Source, Target, SplitOff
<1>3. groups'[Source] = groups[Source] /\ groups'[Target] = groups[Target] /\ groups'[SplitOff] = g
  BY <1>2 DEF Source, Target, SplitOff
<1>4. FrontNow' = FrontNow
  BY <1>3 DEF FrontNow
<1> QED
  BY <1>1, <1>2, <1>3, <1>4 DEF SidesKept, Group

\* A path opened in a group that does not hold it comes behind the tab in front.
LEMMA OpenedBehind ==
  ASSUME NEW S, NEW tabs \in Seq(S), NEW path \in S, \A i \in 1..Len(tabs) : tabs[i] # path
  PROVE  Opened([tabs |-> tabs, active |-> Len(tabs), preview |-> 0], path)
           = [tabs |-> Append(tabs, path), active |-> Len(tabs) + 1, preview |-> Len(tabs) + 1]
<1> DEFINE n == Len(tabs)
<1>1. n \in Nat
  OBVIOUS
<1>2. ~Contains(tabs, path)
  BY DEF Contains
<1>3. SubSeq(tabs, 1, (n + 1) - 1) = tabs
  BY <1>1, SubSeqFull
<1>4. SubSeq(tabs, n + 1, n) = <<>>
  BY <1>1, SubSeqEmpty
<1>5. tabs \o <<path>> = Append(tabs, path) /\ Append(tabs, path) \in Seq(S)
  BY AppendIsConcat, AppendProperties
<1>6. InsertAt(tabs, n + 1, path) = Append(tabs, path)
  BY <1>3, <1>4, <1>5, ConcatEmptySeq DEF InsertAt
<1> QED
  BY <1>2, <1>6 DEF Opened

\* The tabs arrive one behind the other.
LEMMA FirstTabsGrow ==
  ASSUME SidesKept, NEW j \in 0..Whole
  PROVE  /\ j < Whole => Opened(FirstTabs(j, 0), HadTabs[j + 1]) = FirstTabs(j + 1, j + 1)
         /\ j >= 1 => [FirstTabs(j, j) EXCEPT !.preview = 0] = FirstTabs(j, 0)
         /\ j = Whole => AtIndex(FirstTabs(j, 0), ShownOfWhole) = Group(SubSeq(HadTabs, 1, Whole), ShownOfWhole)
<1>1. /\ HadTabs \in Seq(STRING \ {Probe, Text, Image, Late, NoPath}) /\ Len(HadTabs) \in Nat
      /\ \A k, l \in 1..Len(HadTabs) : HadTabs[k] = HadTabs[l] => k = l
      /\ Whole \in 1..Len(HadTabs) /\ ShownOfWhole \in 1..Whole
  BY TabFacts DEF SidesKept
<1> DEFINE S == STRING  tabs == SubSeq(HadTabs, 1, j)
<1>2. HadTabs \in Seq(S)
  BY <1>1, SeqMonotonic
<1> HIDE DEF S
<1>3. tabs \in Seq(S) /\ Len(tabs) = j /\ DOMAIN tabs = 1..j /\ \A i \in 1..j : tabs[i] = HadTabs[i]
  <2>1. \A i \in 1..j : HadTabs[i] \in S
    BY <1>1, <1>2
  <2> QED
    BY <1>1, <2>1, SubSeqProperties
<1>4. j < Whole => Opened(FirstTabs(j, 0), HadTabs[j + 1]) = FirstTabs(j + 1, j + 1)
  <2> SUFFICES ASSUME j < Whole PROVE Opened(FirstTabs(j, 0), HadTabs[j + 1]) = FirstTabs(j + 1, j + 1)
    OBVIOUS
  <2>1. j + 1 \in 1..Len(HadTabs) /\ HadTabs[j + 1] \in S /\ (j + 1) - 1 = j
    BY <1>1, <1>2
  <2>2. \A i \in 1..Len(tabs) : tabs[i] # HadTabs[j + 1]
    BY <1>1, <1>3, <2>1
  <2>3. Append(tabs, HadTabs[j + 1]) = SubSeq(HadTabs, 1, j + 1)
    BY <1>2, <2>1, OneMore
  <2>4. FirstTabs(j, 0) = [tabs |-> tabs, active |-> Len(tabs), preview |-> 0]
    BY <1>3 DEF FirstTabs
  <2> HIDE DEF tabs
  <2>5. Opened(FirstTabs(j, 0), HadTabs[j + 1])
          = [tabs |-> Append(tabs, HadTabs[j + 1]), active |-> Len(tabs) + 1, preview |-> Len(tabs) + 1]
    BY <1>3, <2>1, <2>2, <2>4, OpenedBehind
  <2> QED
    BY <1>3, <2>3, <2>5 DEF FirstTabs
<1>5. [FirstTabs(j, j) EXCEPT !.preview = 0] = FirstTabs(j, 0)
  BY DEF FirstTabs
<1>6. j = Whole => AtIndex(FirstTabs(j, 0), ShownOfWhole) = Group(SubSeq(HadTabs, 1, Whole), ShownOfWhole)
  BY <1>1, <1>3 DEF FirstTabs, AtIndex, Group
<1> QED
  BY <1>4, <1>5, <1>6

\* A single tab arrives beside the target's, which is then closed.
LEMMA OneTabChanges ==
  ASSUME SidesKept
  PROVE  /\ Opened(Group(<<TargetTab>>, 1), HadTabs[HadActive]) = BesideTarget(2)
         /\ [BesideTarget(2) EXCEPT !.preview = 0] = BesideTarget(0)
         /\ ActiveTab(BesideTarget(0)) = HadTabs[HadActive]
         /\ Group(RemoveAt(<<TargetTab>>, 1), 0) = FirstTabs(0, 0)
<1>1. PICK tab : tab = HadTabs[HadActive]
  OBVIOUS
<1>2. Opened(Group(<<TargetTab>>, 1), tab) = BesideTarget(2)
  <2>1. CASE tab = TargetTab
    <3>1. Contains(<<TargetTab>>, tab) /\ DOMAIN <<TargetTab>> = {1}
      BY <2>1 DEF Contains
    <3>2. (CHOOSE i \in DOMAIN <<TargetTab>> : <<TargetTab>>[i] = tab) = 1
      BY <2>1, <3>1
    <3>3. Opened(Group(<<TargetTab>>, 1), tab) = Group(<<TargetTab>>, 1)
      BY <3>1, <3>2 DEF Opened, Group
    <3> QED
      BY <1>1, <2>1, <3>3, Zenon DEF BesideTarget
  <2>2. CASE tab # TargetTab
    <3> DEFINE S == {tab, TargetTab}  one == <<TargetTab>>
    <3>1. one \in Seq(S) /\ Len(one) = 1 /\ one[1] = TargetTab /\ tab \in S
      OBVIOUS
    <3>2. Append(one, tab) = <<TargetTab, tab>>
      <4>1. PICK u : u = Append(one, tab)
        OBVIOUS
      <4>2. PICK v : v = <<TargetTab, tab>>
        OBVIOUS
      <4>3. v \in Seq(S) /\ Len(v) = 2 /\ v[1] = TargetTab /\ v[2] = tab
        BY <4>2
      <4> HIDE DEF S, one
      <4>4. u \in Seq(S) /\ Len(u) = 2 /\ u[1] = TargetTab /\ u[2] = tab
        BY <3>1, <4>1, AppendProperties
      <4>5. \A i \in 1..Len(u) : u[i] = v[i]
        BY <4>3, <4>4
      <4>6. u = v
        BY <4>3, <4>4, <4>5, SeqEqual
      <4> QED
        BY <4>1, <4>2, <4>6
    <3>3. Group(one, 1) = [tabs |-> one, active |-> Len(one), preview |-> 0]
      BY DEF Group
    <3> HIDE DEF S, one
    <3>4. Opened(Group(one, 1), tab) = [tabs |-> Append(one, tab), active |-> Len(one) + 1, preview |-> Len(one) + 1]
      <4>1. \A i \in 1..Len(one) : one[i] # tab
        BY <2>2, <3>1
      <4> QED
        BY <3>1, <3>3, <4>1, OpenedBehind
    <3>5. Opened(Group(one, 1), tab) = [tabs |-> <<TargetTab, tab>>, active |-> 2, preview |-> 2]
      BY <3>1, <3>2, <3>4
    <3>6. BesideTarget(2) = [tabs |-> <<TargetTab, tab>>, active |-> 2, preview |-> 2]
      BY <1>1, <2>2, Zenon DEF BesideTarget
    <3> QED
      BY <3>5, <3>6 DEF one
  <2> QED
    BY <2>1, <2>2
<1>3. [BesideTarget(2) EXCEPT !.preview = 0] = BesideTarget(0)
  <2>1. CASE tab = TargetTab
    <3>1. BesideTarget(2) = Group(<<TargetTab>>, 1) /\ BesideTarget(0) = Group(<<TargetTab>>, 1)
      BY <1>1, <2>1, Zenon DEF BesideTarget
    <3> QED
      BY <3>1 DEF Group
  <2>2. CASE tab # TargetTab
    <3>1. /\ BesideTarget(2) = [tabs |-> <<TargetTab, tab>>, active |-> 2, preview |-> 2]
          /\ BesideTarget(0) = [tabs |-> <<TargetTab, tab>>, active |-> 2, preview |-> 0]
      BY <1>1, <2>2, Zenon DEF BesideTarget
    <3> QED
      BY <3>1
  <2> QED
    BY <2>1, <2>2
<1>4. ActiveTab(BesideTarget(0)) = tab
  <2>1. CASE tab = TargetTab
    <3>1. BesideTarget(0) = Group(<<TargetTab>>, 1)
      BY <1>1, <2>1, Zenon DEF BesideTarget
    <3> QED
      BY <2>1, <3>1 DEF Group, ActiveTab
  <2>2. CASE tab # TargetTab
    <3>1. BesideTarget(0) = [tabs |-> <<TargetTab, tab>>, active |-> 2, preview |-> 0]
      BY <1>1, <2>2, Zenon DEF BesideTarget
    <3>2. BesideTarget(0).tabs = <<TargetTab, tab>> /\ BesideTarget(0).active = 2
      BY <3>1
    <3>3. <<TargetTab, tab>> # <<>> /\ <<TargetTab, tab>>[2] = tab
      OBVIOUS
    <3> QED
      BY <3>2, <3>3, Zenon DEF ActiveTab
  <2> QED
    BY <2>1, <2>2
<1>5. Group(RemoveAt(<<TargetTab>>, 1), 0) = FirstTabs(0, 0)
  <2>1. SubSeq(HadTabs, 1, 0) = <<>>
    BY SubSeqEmpty
  <2>2. RemoveAt(<<TargetTab>>, 1) = <<>>
    <3> DEFINE one == <<TargetTab>>
    <3>1. Len(one) = 1
      OBVIOUS
    <3> HIDE DEF one
    <3>2. SubSeq(one, 1, 1 - 1) = <<>> /\ SubSeq(one, 1 + 1, Len(one)) = <<>>
      BY <3>1, SubSeqEmpty
    <3>3. <<>> \o <<>> = <<>>
      OBVIOUS
    <3>4. RemoveAt(one, 1) = <<>>
      BY <3>2, <3>3, Zenon DEF RemoveAt
    <3> QED
      BY <3>4 DEF one
  <2> QED
    BY <2>1, <2>2 DEF Group, FirstTabs
<1> QED
  BY <1>1, <1>2, <1>3, <1>4, <1>5, Zenon

\* What a step of VS Code makes of the group split off.
LEMMA SplitOffAfter ==
  ASSUME SidesKept, CarriesOut, NEW c, c = Head(sent), NEW g, SplitHolds(g),
         c.verb \in GroupCommands, c.verb = "closeActive" => ~closesEmpty
  PROVE  SidesKept' /\ current' = SplitOff /\ groups'[SplitOff] = AfterCommand(c, g)
<1>1. current = SplitOff /\ g = groups[current]
  BY DEF SplitHolds
<1>2. PICK h : h = AfterCommand(c, g)
  OBVIOUS
<1>3. merging' = merging /\ current' = current /\ groups' = [groups EXCEPT ![SplitOff] = h]
  BY <1>1, <1>2, CommandEffect
<1>4. SidesKept' /\ groups'[SplitOff] = h
  BY <1>3, SplitChanges
<1> QED
  BY <1>1, <1>2, <1>3, <1>4

\* The target's group is split.
LEMMA SplitCarriedOut ==
  ASSUME SidesKept, CarriesOut, Head(sent) = Command("split", 0), NoSplit
  PROVE  SidesKept' /\ current' = SplitOff /\ groups'[SplitOff] = Group(<<TargetTab>>, 1)
<1>1. PICK c : c = Head(sent)
  OBVIOUS
<1>2. PICK g : g = groups[current]
  OBVIOUS
<1>3. g = Group(<<TargetTab>>, 1) /\ ActiveTab(g) = TargetTab
  BY <1>2 DEF NoSplit, SidesKept, Group, ActiveTab
<1>4. merging' = merging /\ current' = SplitOff /\ groups' = [groups EXCEPT ![SplitOff] = Group(<<TargetTab>>, 1)]
  BY <1>1, <1>2, <1>3, CommandEffect DEF Command
<1>5. PICK h : h = Group(<<TargetTab>>, 1)
  OBVIOUS
<1>6. SidesKept' /\ groups'[SplitOff] = h
  BY <1>4, <1>5, SplitChanges
<1> QED
  BY <1>4, <1>5, <1>6

\* One tab is merged in four commands.
LEMMA BufferCarriedOut ==
  ASSUME SidesKept, CarriesOut, NEW C, OfBuffer(C, HadTabs[HadActive]), NEW a \in 0..3, PlacedBuffer(a), Head(sent) = C[a + 1]
  PROVE  SidesKept' /\ PlacedBuffer(a + 1)'
<1>0. HadTabs' = HadTabs /\ HadActive' = HadActive
  BY SameHad DEF CarriesOut
<1>1. CASE a = 0
  <2>1. Head(sent) = Command("split", 0) /\ NoSplit
    BY <1>1 DEF OfBuffer, PlacedBuffer
  <2>2. SidesKept' /\ current' = SplitOff /\ groups'[SplitOff] = Group(<<TargetTab>>, 1)
    BY <2>1, SplitCarriedOut
  <2>3. SplitHolds(Group(<<TargetTab>>, 1))'
    BY <2>2 DEF SplitHolds, Group, SplitOff
  <2> QED
    BY <1>1, <2>2, <2>3 DEF PlacedBuffer
<1>2. PICK c : c = Head(sent)
  OBVIOUS
<1>3. CASE a = 1
  <2>1. c = Command("openPath", HadTabs[HadActive]) /\ SplitHolds(Group(<<TargetTab>>, 1))
    BY <1>2, <1>3 DEF OfBuffer, PlacedBuffer
  <2>2. PICK g : g = Group(<<TargetTab>>, 1)
    OBVIOUS
  <2>3. SidesKept' /\ current' = SplitOff /\ groups'[SplitOff] = AfterCommand(c, g)
    BY <1>2, <2>1, <2>2, SplitOffAfter DEF Command, GroupCommands
  <2>4. AfterCommand(c, g) = Opened(g, HadTabs[HadActive])
    BY <2>1 DEF AfterCommand, Command
  <2>5. groups'[SplitOff] = BesideTarget(2)
    BY <2>2, <2>3, <2>4, OneTabChanges
  <2>6. SplitHolds(BesideTarget(2))'
    BY <1>0, <2>3, <2>5 DEF SplitHolds, BesideTarget, Group, SplitOff
  <2> QED
    BY <1>3, <2>3, <2>6 DEF PlacedBuffer
<1>4. CASE a = 2
  <2>1. c = Command("keep", 0) /\ SplitHolds(BesideTarget(2))
    BY <1>2, <1>4 DEF OfBuffer, PlacedBuffer
  <2>2. PICK g : g = BesideTarget(2)
    OBVIOUS
  <2>3. SidesKept' /\ current' = SplitOff /\ groups'[SplitOff] = AfterCommand(c, g)
    BY <1>2, <2>1, <2>2, SplitOffAfter DEF Command, GroupCommands
  <2>4. AfterCommand(c, g) = [g EXCEPT !.preview = 0]
    BY <2>1 DEF AfterCommand, Command
  <2>5. groups'[SplitOff] = BesideTarget(0)
    BY <2>2, <2>3, <2>4, OneTabChanges
  <2>6. SplitHolds(BesideTarget(0))'
    BY <1>0, <2>3, <2>5 DEF SplitHolds, BesideTarget, Group, SplitOff
  <2> QED
    BY <1>4, <2>3, <2>6 DEF PlacedBuffer
<1>5. CASE a = 3
  <2>1. c = Command("closeOthers", 0) /\ SplitHolds(BesideTarget(0))
    BY <1>2, <1>5 DEF OfBuffer, PlacedBuffer
  <2>2. PICK g : g = BesideTarget(0)
    OBVIOUS
  <2>3. SidesKept' /\ current' = SplitOff /\ groups'[SplitOff] = AfterCommand(c, g)
    BY <1>2, <2>1, <2>2, SplitOffAfter DEF Command, GroupCommands
  <2>4. AfterCommand(c, g) = Group(<<ActiveTab(g)>>, 1)
    BY <2>1 DEF AfterCommand, Command
  <2>5. groups'[SplitOff] = Group(<<HadTabs[HadActive]>>, 1)
    BY <2>2, <2>3, <2>4, OneTabChanges
  <2>6. SplitHolds(Group(<<HadTabs[HadActive]>>, 1))'
    BY <1>0, <2>3, <2>5 DEF SplitHolds, Group, SplitOff
  <2> QED
    BY <1>5, <2>3, <2>6 DEF PlacedBuffer
<1> QED
  BY <1>1, <1>3, <1>4, <1>5

\* A group is merged in two commands for each tab, and three.
LEMMA GroupCarriedOut ==
  ASSUME SidesKept, CarriesOut, NEW C, OfGroup(C, HadTabs, Whole, ShownOfWhole), ~closesEmpty,
         NEW a \in Nat, a < 2 * Whole + 3, PlacedGroup(a), Head(sent) = C[a + 1]
  PROVE  SidesKept' /\ PlacedGroup(a + 1)'
<1>0. /\ HadTabs' = HadTabs /\ HadActive' = HadActive /\ Whole' = Whole /\ ShownOfWhole' = ShownOfWhole
      /\ Whole \in Nat /\ Whole >= 1
  <2>1. Whole \in 1..Len(HadTabs) /\ Len(HadTabs) \in Nat
    BY TabFacts DEF SidesKept
  <2> QED
    BY <2>1, SameHad DEF CarriesOut
<1>1. PICK c : c = Head(sent)
  OBVIOUS
<1>2. CASE a = 0 /\ NoSplit
  <2>1. Head(sent) = Command("split", 0)
    BY <1>2 DEF OfGroup
  <2>2. SidesKept' /\ current' = SplitOff /\ groups'[SplitOff] = Group(<<TargetTab>>, 1)
    BY <1>2, <2>1, SplitCarriedOut
  <2>3. SplitHolds(Group(<<TargetTab>>, 1))'
    BY <2>2 DEF SplitHolds, Group, SplitOff
  <2> QED
    BY <1>2, <2>2, <2>3 DEF PlacedGroup
<1>3. CASE a = 1 /\ SplitHolds(Group(<<TargetTab>>, 1))
  <2>1. c = Command("closeActive", 0)
    BY <1>1, <1>3 DEF OfGroup
  <2>2. PICK g : g = Group(<<TargetTab>>, 1)
    OBVIOUS
  <2>3. SidesKept' /\ current' = SplitOff /\ groups'[SplitOff] = AfterCommand(c, g)
    BY <1>1, <1>3, <2>1, <2>2, SplitOffAfter DEF Command, GroupCommands
  <2>4. g.tabs = <<TargetTab>> /\ g.active = 1 /\ Len(g.tabs) = 1
    BY <2>2 DEF Group
  <2>5. AfterCommand(c, g) = Group(RemoveAt(<<TargetTab>>, 1), 0)
    BY <2>1, <2>4 DEF AfterCommand, Command
  <2>6. groups'[SplitOff] = FirstTabs(0, 0)
    BY <2>3, <2>5, OneTabChanges
  <2>7. SplitHolds(FirstTabs(0, 0))'
    BY <1>0, <2>3, <2>6 DEF SplitHolds, FirstTabs, SplitOff
  <2>8. a + 1 = 2 * 0 + 2 /\ 0 \in (0..Whole)'
    BY <1>0, <1>3
  <2> QED
    BY <2>3, <2>7, <2>8 DEF PlacedGroup
<1>4. ASSUME NEW j \in 0..Whole, a = 2 * j + 2, SplitHolds(FirstTabs(j, 0))
      PROVE  SidesKept' /\ PlacedGroup(a + 1)'
  <2>1. PICK g : g = FirstTabs(j, 0)
    OBVIOUS
  <2>2. CASE j < Whole
    <3>1. j + 1 \in 1..Whole /\ a + 1 = 2 * (j + 1) + 1
      BY <1>0, <1>4, <2>2
    <3>2. c = Command("openPath", HadTabs[j + 1])
      BY <1>1, <3>1 DEF OfGroup
    <3>3. SidesKept' /\ current' = SplitOff /\ groups'[SplitOff] = AfterCommand(c, g)
      BY <1>1, <1>4, <2>1, <3>2, SplitOffAfter DEF Command, GroupCommands
    <3>4. AfterCommand(c, g) = Opened(g, HadTabs[j + 1])
      BY <3>2 DEF AfterCommand, Command
    <3>5. groups'[SplitOff] = FirstTabs(j + 1, j + 1)
      BY <2>1, <2>2, <3>3, <3>4, FirstTabsGrow
    <3>6. SplitHolds(FirstTabs(j + 1, j + 1))'
      BY <1>0, <3>3, <3>5 DEF SplitHolds, FirstTabs, SplitOff
    <3>7. \E i \in (1..Whole)' : a + 1 = 2 * i + 1 /\ SplitHolds(FirstTabs(i, i))'
      BY <1>0, <3>1, <3>6
    <3> QED
      BY <3>3, <3>7 DEF PlacedGroup
  <2>3. CASE j = Whole
    <3>1. c = Command("openIndex", ShownOfWhole) /\ a + 1 = 2 * Whole + 3
      BY <1>0, <1>1, <1>4, <2>3 DEF OfGroup
    <3>2. SidesKept' /\ current' = SplitOff /\ groups'[SplitOff] = AfterCommand(c, g)
      BY <1>1, <1>4, <2>1, <3>1, SplitOffAfter DEF Command, GroupCommands
    <3>3. AfterCommand(c, g) = AtIndex(g, ShownOfWhole)
      BY <3>1 DEF AfterCommand, Command
    <3>4. groups'[SplitOff] = Group(SubSeq(HadTabs, 1, Whole), ShownOfWhole)
      BY <2>1, <2>3, <3>2, <3>3, FirstTabsGrow
    <3>5. SplitHolds(Group(SubSeq(HadTabs, 1, Whole), ShownOfWhole))'
      BY <1>0, <3>2, <3>4 DEF SplitHolds, Group, SplitOff
    <3> QED
      BY <1>0, <3>1, <3>2, <3>5 DEF PlacedGroup
  <2> QED
    BY <1>0, <2>2, <2>3
<1>5. ASSUME NEW j \in 1..Whole, a = 2 * j + 1, SplitHolds(FirstTabs(j, j))
      PROVE  SidesKept' /\ PlacedGroup(a + 1)'
  <2>1. PICK g : g = FirstTabs(j, j)
    OBVIOUS
  <2>2. j \in 0..Whole /\ j >= 1 /\ a + 1 = 2 * j + 2
    BY <1>0, <1>5
  <2>3. c = Command("keep", 0)
    BY <1>1, <1>5, <2>2 DEF OfGroup
  <2>4. SidesKept' /\ current' = SplitOff /\ groups'[SplitOff] = AfterCommand(c, g)
    BY <1>1, <1>5, <2>1, <2>3, SplitOffAfter DEF Command, GroupCommands
  <2>5. AfterCommand(c, g) = [g EXCEPT !.preview = 0]
    BY <2>3 DEF AfterCommand, Command
  <2>6. groups'[SplitOff] = FirstTabs(j, 0)
    BY <2>1, <2>2, <2>4, <2>5, FirstTabsGrow
  <2>7. SplitHolds(FirstTabs(j, 0))'
    BY <1>0, <2>4, <2>6 DEF SplitHolds, FirstTabs, SplitOff
  <2>8. \E i \in (0..Whole)' : a + 1 = 2 * i + 2 /\ SplitHolds(FirstTabs(i, 0))'
    BY <1>0, <2>2, <2>7
  <2> QED
    BY <2>4, <2>8 DEF PlacedGroup
<1> QED
  BY <1>0, <1>2, <1>3, <1>4, <1>5 DEF PlacedGroup

\* While the commands of the merge are sent, VS Code carries out the next one.
LEMMA CarriedOutWhileMerging ==
  ASSUME PlaceInv, CarriesOut, ~(closesEmpty /\ merging.scope = "group")
  PROVE  PlaceInv'
<1>1. merging' = merging /\ SidesKept /\ CapturedAll /\ sent' = Tail(sent) /\ sent # <<>>
  BY DEF CarriesOut, PlaceInv
<1>2. HadTabs' = HadTabs /\ HadActive' = HadActive /\ Whole' = Whole /\ ShownOfWhole' = ShownOfWhole
  BY <1>1, SameHad
<1>3. CapturedAll' /\ MergeCommands' = MergeCommands
  BY <1>1, <1>2, CommandsStay DEF CapturedAll, SameMerging
<1>4. PICK C : C = MergeCommands
  OBVIOUS
<1>5. /\ IsSeq(C) /\ merging.scope \in {"terminal", "buffer", "group"}
      /\ merging.scope = "terminal" => OfTerminal(C)
      /\ merging.scope = "buffer" => OfBuffer(C, HadTabs[HadActive])
      /\ merging.scope = "group" => OfGroup(C, HadTabs, Whole, ShownOfWhole)
  BY <1>1, <1>4, CommandsListed
<1>6. CASE /\ merging.at = "settleMerge" /\ sent = <<Command("show", 0)>> /\ merging.todo = MergeCommands
           /\ groups[SplitOff] = NoGroup /\ ~merging.unshown
  <2>1. PICK c : c = Head(sent)
    OBVIOUS
  <2>2. sent' = <<>> /\ c.verb = "show"
    BY <1>1, <1>6, <2>1 DEF Command
  <2>3. current' = Target /\ groups' = groups
    BY <2>1, <2>2, CommandEffect
  <2>4. SidesKept'
    BY <1>1, <2>3, SidesStay
  <2>5. NoSplit'
    BY <1>6, <2>3 DEF NoSplit
  <2>6. PlacedSoFar(0)'
    BY <2>5 DEF PlacedSoFar, PlacedBuffer, PlacedGroup
  <2>7. SubSeq(C, 0 + 1, 0) = <<>> /\ SubSeq(C, 0 + 1, Len(C)) = C /\ 0 \in 0..Len(C)
    <3>1. PICK S : C \in Seq(S)
      BY <1>5 DEF IsSeq
    <3> QED
      BY <3>1, SubSeqEmpty, SubSeqFull
  <2>8. Between(0, 0)'
    <3>1. MergeCommands' = C /\ sent' = SubSeq(C, 0 + 1, 0) /\ PlacedSoFar(0)' /\ ~merging'.unshown
      BY <1>1, <1>3, <1>4, <1>6, <2>2, <2>6, <2>7
    <3>2. merging'.todo = SubSeq(C, 0 + 1, Len(C)) /\ merging'.at = "settleMerge"
      BY <1>1, <1>4, <1>6, <2>7
    <3>3. 0 <= 0 /\ "settleMerge" # "merge" /\ "settleMerge" # "done"
      OBVIOUS
    <3> QED
      BY <3>1, <3>2, <3>3, Zenon DEF Between
  <2> QED
    BY <1>3, <1>4, <2>4, <2>7, <2>8 DEF PlaceInv
<1>7. ASSUME NEW a \in 0..Len(C), NEW b \in 0..Len(C), Between(a, b) PROVE PlaceInv'
  <2>1. a <= b /\ PlacedSoFar(a) /\ sent = SubSeq(C, a + 1, b)
    BY <1>4, <1>7 DEF Between
  <2>0. Len(C) \in Nat /\ b <= Len(C) /\ a \in Nat
    <3>1. Len(C) \in Nat
      BY <1>5, <2>1, Stretch
    <3> QED
      BY <3>1
  <2>2. Len(C) \in Nat /\ a < b /\ Head(sent) = C[a + 1] /\ sent' = SubSeq(C, a + 2, b)
    <3>1. Len(C) \in Nat /\ (SubSeq(C, a + 1, b) = <<>> <=> a = b)
      BY <1>5, <2>1, Stretch
    <3>2. a < b
      BY <1>1, <2>1, <3>1
    <3> QED
      BY <1>1, <1>5, <2>1, <3>1, <3>2, Stretch
  <2>3. SidesKept' /\ PlacedSoFar(a + 1)'
    <3>1. CASE merging.scope = "terminal"
      <4>1. PICK c : c = Head(sent)
        OBVIOUS
      <4>2. Len(C) = 1 /\ C[1] = Command("terminalToPanel", 0)
        BY <1>5, <3>1 DEF OfTerminal
      <4>3. a = 0
        BY <1>7, <2>0, <2>2, <4>2
      <4>4. c.verb = "terminalToPanel"
        BY <2>2, <4>1, <4>2, <4>3 DEF Command
      <4>5. PICK g : g = groups[current]
        OBVIOUS
      <4>6. current' = current /\ groups' = groups
        BY <4>1, <4>4, <4>5, CommandEffect
      <4>7. SidesKept' /\ NoSplit'
        BY <1>1, <2>1, <3>1, <4>6, SidesStay DEF NoSplit, PlacedSoFar
      <4> QED
        BY <1>1, <3>1, <4>7 DEF PlacedSoFar
    <3>2. CASE merging.scope = "buffer"
      <4>0. Len(C) = 4
        BY <1>5, <3>2 DEF OfBuffer
      <4>1. a \in 0..3 /\ PlacedBuffer(a)
        <5>1. a \in 0..3
          BY <1>7, <2>0, <2>2, <4>0
        <5> QED
          BY <2>1, <3>2, <5>1 DEF PlacedSoFar
      <4>2. SidesKept' /\ PlacedBuffer(a + 1)'
        BY <1>1, <1>5, <2>2, <3>2, <4>1, BufferCarriedOut
      <4> QED
        BY <1>1, <3>2, <4>2 DEF PlacedSoFar
    <3>3. CASE merging.scope = "group"
      <4>0. Len(C) = 2 * Whole + 3
        BY <1>5, <3>3 DEF OfGroup
      <4>1. a \in Nat /\ a < 2 * Whole + 3 /\ PlacedGroup(a)
        BY <2>0, <2>1, <2>2, <3>3, <4>0 DEF PlacedSoFar
      <4>2. SidesKept' /\ PlacedGroup(a + 1)'
        BY <1>1, <1>5, <2>2, <3>3, <4>1, GroupCarriedOut
      <4> QED
        BY <1>1, <3>3, <4>2 DEF PlacedSoFar
    <3> QED
      BY <1>5, <3>1, <3>2, <3>3
  <2>4. /\ ~merging.unshown => merging.todo = SubSeq(C, b + 1, Len(C))
        /\ merging.unshown => /\ merging.scope = "group" /\ merging.todo = <<>> /\ b + 1 = Len(C)
                              /\ merging.at = "merge" => a = b
        /\ merging.at = "merge" => a = b \/ C[b].verb = "openPath"
        /\ merging.at = "done" => a = b
    BY <1>4, <1>7 DEF Between
  <2>5. a + 1 \in 0..Len(C) /\ a + 1 <= b /\ (a + 1) + 1 = a + 2
    BY <2>2
  <2>6. sent' = SubSeq(C, (a + 1) + 1, b) /\ a # b
    BY <2>0, <2>2, <2>5
  <2>7. Between(a + 1, b)'
    <3>1. merging'.at # "done" /\ (merging'.at = "merge" => C[b].verb = "openPath" /\ ~merging'.unshown)
      BY <1>1, <2>4, <2>6
    <3>2. /\ a + 1 <= b /\ PlacedSoFar(a + 1)' /\ MergeCommands' = C
          /\ ~merging'.unshown => merging'.todo = SubSeq(C, b + 1, Len(C))
          /\ merging'.unshown => merging'.scope = "group" /\ merging'.todo = <<>> /\ b + 1 = Len(C)
      BY <1>1, <1>3, <1>4, <2>3, <2>4, <2>5
    <3> QED
      BY <2>6, <3>1, <3>2 DEF Between
  <2> QED
    BY <1>3, <1>4, <1>7, <2>3, <2>5, <2>7 DEF PlaceInv
<1> QED
  BY <1>4, <1>6, <1>7 DEF PlaceInv

\* No step but a command sent touches the ports; the call's record of the source is
\* made when it begins, and VS Code's setting is never changed.
LEMMA NothingElseChanges ==
  ASSUME IsMerging(merging), [VscodeMergeNext]_mergeVars
  PROVE  /\ closesEmpty' = closesEmpty
         /\ net' = net \/ \E c : Send(c)
         /\ merging.at # "idle" => merging'.had = merging.had
<1>1. ASSUME NEW scope, BeginsMerge(scope) PROVE closesEmpty' = closesEmpty /\ net' = net /\ merging.at = "idle"
  BY <1>1 DEF BeginsMerge, Merging
<1>2. CASE CopiesPath
  BY <1>2 DEF CopiesPath, IsMerging
<1>3. CASE ClipboardSettles \/ TabSettles \/ BackSettles \/ MergeSettles
  BY <1>3 DEF ClipboardSettles, TabSettles, BackSettles, MergeSettles, Settles, IsMerging
<1>4. CASE ReadsPath
  BY <1>4 DEF ReadsPath, Merging, Captured, IsMerging
<1>5. CASE OpensTab \/ GoesBack \/ RestoresClipboard
  BY <1>5 DEF OpensTab, GoesBack, RestoresClipboard, IsMerging
<1>6. CASE ShowsTarget \/ MergesNext \/ SendFails
  BY <1>6 DEF ShowsTarget, MergesNext, SendFails, OnlyShows, Merging, IsMerging
<1>7. CASE CarriesOut \/ UserCopies \/ UserChangesTab \/ UNCHANGED mergeVars
  BY <1>7 DEF CarriesOut, UserCopies, UserChangesTab, mergeVars
<1> QED
  BY <1>1, <1>2, <1>3, <1>4, <1>5, <1>6, <1>7 DEF VscodeMergeNext

\* When a command was given up, nothing is left to do but to wait.
LEMMA GivingUpStays ==
  ASSUME IsMerging(merging), GivesUpLast, [VscodeMergeNext]_mergeVars
  PROVE  GivesUpLast'
<1> USE DEF GivesUpLast
<1>1. ASSUME NEW scope, BeginsMerge(scope) PROVE GivesUpLast'
  BY <1>1 DEF BeginsMerge, Merging, NoMerging
<1>2. CASE CopiesPath
  BY <1>2 DEF CopiesPath, IsMerging
<1>3. CASE ClipboardSettles \/ TabSettles \/ BackSettles \/ MergeSettles
  BY <1>3 DEF ClipboardSettles, TabSettles, BackSettles, MergeSettles, Settles, IsMerging
<1>4. CASE ReadsPath
  BY <1>4 DEF ReadsPath, Merging, Captured, IsMerging
<1>5. CASE OpensTab \/ GoesBack \/ RestoresClipboard
  BY <1>5 DEF OpensTab, GoesBack, RestoresClipboard, IsMerging
<1>6. CASE ShowsTarget \/ MergesNext
  BY <1>6 DEF ShowsTarget, MergesNext, Merging, IsMerging
<1>7. CASE SendFails
  BY <1>7 DEF SendFails, OnlyShows, IsMerging
<1>8. CASE CarriesOut \/ UserCopies \/ UserChangesTab \/ UNCHANGED mergeVars
  BY <1>8 DEF CarriesOut, UserCopies, UserChangesTab, mergeVars
<1> QED
  BY <1>1, <1>2, <1>3, <1>4, <1>5, <1>6, <1>7, <1>8 DEF VscodeMergeNext

\* What was disturbed stays disturbed, once a call has begun.
LEMMA DisturbedStays ==
  ASSUME IsMerging(merging), NetInv, [VscodeMergeNext]_mergeVars
  PROVE  /\ NetInv'
         /\ merging.at # "idle" /\ Undisturbed' => Undisturbed
<1>1. /\ writable' = writable /\ (meddled => meddled')
      /\ net' = net \/ \E c : Send(c)
      /\ merging.at # "idle" => merging'.had = merging.had
  BY HistoryStays, NothingElseChanges
<1>2. NetInv' /\ (Reaches' => Reaches)
  <2>1. CASE net' = net
    <3>1. NetInv'
      BY <2>1 DEF NetInv
    <3>2. CandidatePorts' = CandidatePorts
      BY <2>1 DEF CandidatePorts, ListenerPorts, Listening
    <3>3. FirstAccepting' = FirstAccepting
      BY <2>1, <3>2 DEF FirstAccepting, Accepting
    <3>4. Reaches' <=> Reaches
      BY <2>1, <3>2, <3>3 DEF Reaches
    <3> QED
      BY <3>1, <3>4
  <2>2. ASSUME NEW c, Send(c) PROVE NetInv' /\ (Reaches' => Reaches)
    BY <2>2, SendReaches
  <2> QED
    BY <1>1, <2>1, <2>2
<1>3. merging.at # "idle" => AllHavePaths' = AllHavePaths
  BY <1>1, SameHad
<1> QED
  BY <1>1, <1>2, <1>3 DEF Undisturbed

\* At first nothing is under way.
LEMMA GroupInit == MergeInit => GroupInv
<1> SUFFICES ASSUME MergeInit PROVE GroupInv
  OBVIOUS
<1>1. net \in Nets /\ merging = NoMerging /\ sent = <<>> /\ current = Source
  BY DEF MergeInit
<1>2. NetInv
  BY <1>1, NetsAssumption DEF NetInv
<1>3. IsMerging(merging) /\ merging.at = "idle" /\ GivesUpLast
  BY <1>1 DEF IsMerging, NoMerging, GivesUpLast
<1>4. \E tabs \in Tabs0 : \E i \in DOMAIN tabs : groups = <<Group(tabs, i), Group(<<TargetTab>>, 1), NoGroup>>
  BY DEF MergeInit
<1> QED
  BY <1>1, <1>2, <1>3, <1>4 DEF GroupInv

\* Each phase has its invariant, and every step keeps that of the phase it leads to.
LEMMA GroupStep ==
  ASSUME GroupInv, ClipInv, [VscodeMergeNext]_mergeVars
  PROVE  GroupInv'
<1> DEFINE Shut == closesEmpty /\ merging.scope = "group"
           Placing == {"settleMerge", "merge", "done"}
           Over == {"idle", "failed"}
<1>1. /\ IsMerging(merging) /\ NetInv /\ GivesUpLast /\ IsMerging(merging)' /\ NetInv' /\ GivesUpLast'
      /\ merging.at # "idle" /\ Undisturbed' => Undisturbed
  BY MergingStays, GivingUpStays, DisturbedStays DEF GroupInv
<1>2. closesEmpty' = closesEmpty
  BY <1>1, NothingElseChanges
<1>3. /\ Undisturbed /\ merging.at \notin Over \cup Placing => CaptureInv
      /\ Undisturbed /\ merging.at \in Placing /\ ~Shut => PlaceInv
  BY DEF GroupInv
<1>4. ASSUME merging'.at \notin {"idle"},
             Undisturbed' /\ merging'.at \notin Over \cup Placing => CaptureInv',
             Undisturbed' /\ merging'.at \in Placing /\ ~Shut' => PlaceInv'
      PROVE  GroupInv'
  BY <1>1, <1>4 DEF GroupInv
<1>5. Undisturbed' => ~meddled'
  BY DEF Undisturbed
<1>6. ASSUME NEW scope \in {"buffer", "group", "terminal"}, BeginsMerge(scope) PROVE GroupInv'
  <2>1. merging'.at \in {"probe", "prepared"}
    BY <1>6 DEF BeginsMerge, Merging, NoMerging
  <2>2. CaptureInv'
    BY <1>6, BeginsKeeps
  <2> QED
    BY <1>4, <2>1, <2>2
<1>7. CASE CopiesPath
  <2>1. merging.at = "probe" /\ merging'.at = "settle"
    BY <1>1, <1>7 DEF CopiesPath, IsMerging
  <2>2. ASSUME Undisturbed' PROVE CaptureInv'
    <3>1. Reaches /\ CaptureInv
      BY <1>1, <1>3, <2>1, <2>2 DEF Undisturbed
    <3> QED
      BY <1>1, <1>7, <3>1, CopiesKeeps
  <2> QED
    BY <1>4, <2>1, <2>2
<1>8. CASE ClipboardSettles \/ TabSettles \/ BackSettles
  <2>1. merging.at \in {"settle", "settleTab", "settleBack"} /\ merging'.at \in {"read", "probe", "restore"}
    BY <1>1, <1>8 DEF ClipboardSettles, TabSettles, BackSettles, Settles, IsMerging
  <2>2. ASSUME Undisturbed' PROVE CaptureInv'
    <3>1. CaptureInv
      BY <1>1, <1>3, <2>1, <2>2
    <3>2. ~meddled'
      BY <1>5, <2>2
    <3> QED
      BY <1>1, <1>8, <3>1, <3>2, WaitsKeep
  <2> QED
    BY <1>4, <2>1, <2>2
<1>9. CASE ReadsPath
  <2>1. merging.at = "read" /\ merging'.at \in {"restore", "openTab", "back"}
    BY <1>1, <1>9 DEF ReadsPath, Merging, Captured, IsMerging
  <2>2. ASSUME Undisturbed' PROVE CaptureInv'
    <3>1. CaptureInv
      BY <1>1, <1>3, <2>1, <2>2
    <3> QED
      BY <1>1, <1>9, <3>1, ReadsKeeps
  <2> QED
    BY <1>4, <2>1, <2>2
<1>10. CASE OpensTab
  <2>1. merging.at = "openTab" /\ merging'.at = "settleTab"
    BY <1>1, <1>10 DEF OpensTab, IsMerging
  <2>2. ASSUME Undisturbed' PROVE CaptureInv'
    <3>1. Reaches /\ CaptureInv
      BY <1>1, <1>3, <2>1, <2>2 DEF Undisturbed
    <3> QED
      BY <1>1, <1>10, <3>1, OpensTabKeeps
  <2> QED
    BY <1>4, <2>1, <2>2
<1>11. CASE GoesBack
  <2>1. merging.at = "back" /\ merging'.at = "settleBack"
    BY <1>1, <1>11 DEF GoesBack, IsMerging
  <2>2. ASSUME Undisturbed' PROVE CaptureInv'
    <3>1. Reaches /\ CaptureInv
      BY <1>1, <1>3, <2>1, <2>2 DEF Undisturbed
    <3> QED
      BY <1>1, <1>11, <3>1, GoesBackKeeps
  <2> QED
    BY <1>4, <2>1, <2>2
<1>12. CASE RestoresClipboard
  <2>1. merging.at = "restore" /\ merging'.at = merging.next /\ merging.next \in {"prepared", "failed"}
    BY <1>1, <1>12 DEF RestoresClipboard, IsMerging, ClipInv
  <2>2. ASSUME Undisturbed', merging'.at # "failed" PROVE CaptureInv'
    <3>1. CaptureInv
      BY <1>1, <1>3, <2>1, <2>2
    <3> QED
      BY <1>1, <1>12, <2>2, <3>1, RestoresKeeps
  <2> QED
    BY <1>4, <2>1, <2>2
<1>13. CASE ShowsTarget
  <2>1. merging.at = "prepared" /\ merging'.at = "settleMerge"
    BY <1>1, <1>13 DEF ShowsTarget, IsMerging
  <2>2. ASSUME Undisturbed' PROVE PlaceInv'
    <3>1. CaptureInv /\ ~merging.unshown
      BY <1>1, <1>3, <2>1, <2>2 DEF GivesUpLast
    <3> QED
      BY <1>1, <1>13, <3>1, ShowsKeeps
  <2> QED
    BY <1>4, <2>1, <2>2
<1>14. CASE MergeSettles
  <2>1. merging.at = "settleMerge" /\ merging'.at = "merge" /\ merging'.scope = merging.scope
    BY <1>1, <1>14 DEF MergeSettles, Settles, IsMerging
  <2>2. ASSUME Undisturbed', ~Shut' PROVE PlaceInv'
    <3>1. PlaceInv
      BY <1>1, <1>2, <1>3, <2>1, <2>2
    <3>2. ~meddled'
      BY <1>5, <2>2
    <3> QED
      BY <1>1, <1>14, <3>1, <3>2, MergeWaitKeeps
  <2> QED
    BY <1>4, <2>1, <2>2
<1>15. CASE MergesNext
  <2>1. merging.at = "merge" /\ merging'.at \in Placing /\ merging'.scope = merging.scope
    BY <1>1, <1>15 DEF MergesNext, Merging, IsMerging
  <2>2. ASSUME Undisturbed', ~Shut' PROVE PlaceInv'
    <3>1. Reaches /\ PlaceInv
      BY <1>1, <1>2, <1>3, <2>1, <2>2 DEF Undisturbed
    <3> QED
      BY <1>1, <1>15, <3>1, MergesKeeps
  <2> QED
    BY <1>4, <2>1, <2>2
<1>16. CASE SendFails
  <2>1. /\ merging.at \in {"probe", "openTab", "merge"} /\ merging'.scope = merging.scope
        /\ merging'.at = IF OnlyShows THEN "settleMerge" ELSE IF merging.at = "merge" THEN "failed" ELSE "restore"
    BY <1>1, <1>16 DEF SendFails, OnlyShows, IsMerging
  <2>2. ASSUME Undisturbed', merging'.at = "restore" PROVE CaptureInv'
    <3>1. CaptureInv /\ merging.at # "merge"
      BY <1>1, <1>3, <2>1, <2>2
    <3> QED
      BY <1>1, <1>16, <3>1, FailingKeeps
  <2>3. ASSUME Undisturbed', ~Shut', OnlyShows PROVE PlaceInv'
    <3>1. PlaceInv
      BY <1>1, <1>2, <1>3, <2>1, <2>3 DEF OnlyShows
    <3> QED
      BY <1>1, <1>16, <2>3, <3>1, GivenUpKeeps
  <2> QED
    BY <1>4, <2>1, <2>2, <2>3
<1>17. CASE CarriesOut
  <2>1. merging' = merging /\ sent # <<>>
    BY <1>17 DEF CarriesOut
  <2>2. merging.at # "idle"
    BY <2>1 DEF GroupInv
  <2>3. ASSUME Undisturbed', merging.at \notin Over \cup Placing PROVE CaptureInv'
    <3>1. CaptureInv /\ (writable \/ AllHavePaths)
      BY <1>1, <1>3, <2>2, <2>3 DEF Undisturbed
    <3> QED
      BY <1>17, <3>1, CarriedOutWhileCapturing
  <2>4. ASSUME Undisturbed', merging.at \in Placing, ~Shut PROVE PlaceInv'
    <3>1. PlaceInv
      BY <1>1, <1>3, <2>2, <2>4
    <3> QED
      BY <1>17, <2>4, <3>1, CarriedOutWhileMerging
  <2> QED
    BY <1>2, <1>4, <2>1, <2>2, <2>3, <2>4
<1>18. CASE UserCopies \/ UserChangesTab
  <2>1. merging' = merging /\ merging.at # "idle" /\ meddled'
    BY <1>18 DEF UserCopies, UserChangesTab, Underway
  <2>2. ~Undisturbed'
    BY <2>1 DEF Undisturbed
  <2> QED
    BY <1>4, <2>1, <2>2
<1>19. CASE UNCHANGED mergeVars
  <2>1. merging' = merging /\ groups' = groups /\ sent' = sent /\ current' = current
    BY <1>19 DEF mergeVars
  <2>2. CASE merging.at = "idle"
    BY <1>1, <2>1, <2>2 DEF GroupInv
  <2>3. CASE merging.at # "idle"
    <3>1. SameMerging /\ clip' = clip /\ writable' = writable
      BY <1>19, <2>1 DEF SameMerging, mergeVars
    <3>2. CaptureInv => CaptureInv'
      BY <1>19, <2>1 DEF mergeVars, CaptureInv, LookInv, WalkInv, BackInv, GivesBackInv, AskInv, TabIsRead, OpenedLast,
         OpenedNext, CapturedAll, SidesKept, HadTabs, HadActive, FrontNow, Whole, ShownOfWhole
    <3>3. ASSUME PlaceInv PROVE PlaceInv'
      <4>1. SidesKept' /\ CapturedAll' /\ MergeCommands' = MergeCommands /\ \A k : PlacedSoFar(k) => PlacedSoFar(k)'
        BY <2>1, <3>1, <3>3, SidesStay, PlacedStays, CommandsStay DEF PlaceInv
      <4>2. ASSUME NEW a, NEW b, Between(a, b) PROVE Between(a, b)'
        BY <2>1, <4>1, <4>2 DEF Between
      <4> QED
        BY <2>1, <3>3, <4>1, <4>2 DEF PlaceInv
    <3> QED
      BY <1>1, <1>2, <1>3, <1>4, <2>1, <2>3, <3>2, <3>3
  <2> QED
    BY <2>2, <2>3
<1> QED
  BY <1>6, <1>7, <1>8, <1>9, <1>10, <1>11, <1>12, <1>13, <1>14, <1>15, <1>16, <1>17, <1>18, <1>19 DEF VscodeMergeNext

\* When the call is done, all its commands are carried out, and what was placed is
\* what was captured.
LEMMA GroupIsWhole == GroupInv => GroupArrivesWhole
<1> SUFFICES ASSUME GroupInv, merging.at = "done", Undisturbed, ~(closesEmpty /\ merging.scope = "group"),
                    NEW C, C = MergeCommands, NEW shown, shown = HadTabs[HadActive],
                    NEW whole, whole = IF merging.scope = "buffer" THEN <<shown>> ELSE SubSeq(HadTabs, 1, Whole)
             PROVE  IF merging.scope = "terminal"
                    THEN groups = <<[merging.had EXCEPT !.active = groups[Source].active], Group(<<TargetTab>>, 1), NoGroup>>
                    ELSE /\ groups[SplitOff].tabs = whole
                         /\ Contains(whole, shown) => ActiveTab(groups[SplitOff]) = LeftInFront(whole, shown)
                         /\ groups[Target] = Group(<<TargetTab>>, 1)
                         /\ groups[Source] = [merging.had EXCEPT !.active = groups[Source].active]
  BY DEF GroupArrivesWhole, Undisturbed, AllHavePaths, HadTabs, HadActive, Whole
<1>1. PlaceInv
  BY DEF GroupInv
<1>2. SidesKept /\ CapturedAll
  BY <1>1 DEF PlaceInv
<1>3. /\ IsSeq(C) /\ merging.scope \in {"terminal", "buffer", "group"}
      /\ merging.scope = "buffer" => Len(C) = 4
      /\ merging.scope = "group" => Len(C) = 2 * Whole + 3
  BY <1>2, CommandsListed DEF OfBuffer, OfGroup
<1>4. /\ ~merging.unshown => PlacedSoFar(Len(C))
      /\ merging.unshown => merging.scope = "group" /\ PlacedSoFar(Len(C) - 1)
  <2>1. PICK a, b \in 0..Len(C) : Between(a, b)
    BY <1>1 DEF PlaceInv
  <2>2. /\ a = b /\ PlacedSoFar(a) /\ (~merging.unshown => b = Len(C))
        /\ merging.unshown => merging.scope = "group" /\ b + 1 = Len(C)
    BY <2>1 DEF Between
  <2>3. a <= b /\ b \in 0..Len(C)
    BY <2>1 DEF Between
  <2>4. Len(C) \in Nat
    BY <1>3, <2>1, <2>3, Stretch
  <2>5. b + 1 = Len(C) => b = Len(C) - 1
    BY <2>3, <2>4
  <2> QED
    BY <2>2, <2>5
<1>5. groups[Target] = Group(<<TargetTab>>, 1) /\ groups[Source] = [merging.had EXCEPT !.active = groups[Source].active]
  <2>1. merging.had = Group(HadTabs, HadActive) /\ groups[Source] = Group(HadTabs, FrontNow)
        /\ groups[Target] = Group(<<TargetTab>>, 1) /\ groups[Source].active = FrontNow
    BY <1>2 DEF SidesKept, FrontNow
  <2>2. [merging.had EXCEPT !.active = FrontNow] = Group(HadTabs, FrontNow)
    BY <2>1 DEF Group
  <2> QED
    BY <2>1, <2>2
<1>6. CASE merging.scope = "terminal"
  <2>1. groups[SplitOff] = NoGroup
    BY <1>4, <1>6 DEF PlacedSoFar, NoSplit
  <2>2. groups = <<groups[Source], groups[Target], groups[SplitOff]>>
    BY <1>2 DEF SidesKept
  <2> QED
    BY <1>5, <1>6, <2>1, <2>2
<1>7. CASE merging.scope = "buffer"
  <2>1. groups[SplitOff] = Group(<<shown>>, 1)
    <3>1. PlacedBuffer(4)
      BY <1>3, <1>4, <1>7 DEF PlacedSoFar
    <3>2. ~(4 = 0) /\ ~(4 = 1) /\ ~(4 = 2) /\ ~(4 = 3)
      OBVIOUS
    <3>3. SplitHolds(Group(<<HadTabs[HadActive]>>, 1))
      BY <3>1, <3>2 DEF PlacedBuffer
    <3> QED
      BY <3>3 DEF SplitHolds
  <2>2. groups[SplitOff].tabs = <<shown>> /\ ActiveTab(groups[SplitOff]) = shown /\ ~merging.unshown
    BY <1>4, <1>7, <2>1 DEF Group, ActiveTab
  <2> QED
    BY <1>5, <1>7, <2>2 DEF LeftInFront
<1>8. CASE merging.scope = "group"
  <2>1. /\ HadTabs \in Seq(STRING \ {Probe, Text, Image, Late, NoPath}) /\ Len(HadTabs) \in Nat
        /\ HadActive \in 1..Len(HadTabs) /\ Whole \in 1..Len(HadTabs) /\ ShownOfWhole \in 1..Whole
        /\ \A i, j \in 1..Len(HadTabs) : HadTabs[i] = HadTabs[j] => i = j
    BY <1>2, TabFacts DEF SidesKept
  <2>2. ASSUME ~merging.unshown PROVE groups[SplitOff] = Group(whole, ShownOfWhole)
    <3>1. PlacedGroup(2 * Whole + 3)
      BY <1>3, <1>4, <1>8, <2>2 DEF PlacedSoFar
    <3>2. /\ ~(2 * Whole + 3 = 0) /\ ~(2 * Whole + 3 = 1)
          /\ \A j \in 0..Whole : ~(2 * Whole + 3 = 2 * j + 2)
          /\ \A j \in 1..Whole : ~(2 * Whole + 3 = 2 * j + 1)
      BY <2>1
    <3>3. SplitHolds(Group(SubSeq(HadTabs, 1, Whole), ShownOfWhole))
      BY <3>1, <3>2 DEF PlacedGroup
    <3> QED
      BY <1>8, <3>3 DEF SplitHolds
  <2>3. ASSUME merging.unshown PROVE groups[SplitOff] = FirstTabs(Whole, 0)
    <3>1. PlacedGroup(2 * Whole + 2)
      <4>1. (2 * Whole + 3) - 1 = 2 * Whole + 2
        BY <2>1
      <4> QED
        BY <1>3, <1>4, <1>8, <2>3, <4>1 DEF PlacedSoFar
    <3>2. /\ ~(2 * Whole + 2 = 0) /\ ~(2 * Whole + 2 = 1) /\ ~(2 * Whole + 2 = 2 * Whole + 3)
          /\ \A j \in 0..Whole : 2 * Whole + 2 = 2 * j + 2 => j = Whole
          /\ \A j \in 1..Whole : ~(2 * Whole + 2 = 2 * j + 1)
      BY <2>1
    <3>3. SplitHolds(FirstTabs(Whole, 0))
      BY <3>1, <3>2 DEF PlacedGroup
    <3> QED
      BY <3>3 DEF SplitHolds
  <2>4. /\ groups[SplitOff].tabs = whole
        /\ groups[SplitOff].active = IF merging.unshown THEN Whole ELSE ShownOfWhole
    BY <1>8, <2>2, <2>3 DEF Group, FirstTabs
  <2>5. Len(whole) = Whole /\ \A i \in 1..Whole : whole[i] = HadTabs[i]
    BY <1>8, <2>1
  <2>6. whole # <<>>
    <3>1. Whole # 0
      BY <2>1
    <3>2. Len(<<>>) = 0
      OBVIOUS
    <3> QED
      BY <2>5, <3>1, <3>2, Zenon
  <2>7. ASSUME merging.unshown PROVE ActiveTab(groups[SplitOff]) = Last(whole)
    BY <2>4, <2>5, <2>6, <2>7, Zenon DEF ActiveTab, Last
  <2>8. ASSUME Contains(whole, shown), ~merging.unshown PROVE ActiveTab(groups[SplitOff]) = shown
    <3>2. PICK i \in 1..Whole : whole[i] = shown
      <4>1. Contains(whole, shown) => \E i \in 1..Len(whole) : whole[i] = shown
        BY Zenon DEF Contains
      <4> QED
        BY <2>5, <2>8, <4>1, Zenon
    <3>3. i = HadActive
      BY <2>1, <2>5, <3>2
    <3>4. ShownOfWhole = HadActive
      BY <2>1, <3>2, <3>3 DEF ShownOfWhole
    <3>5. whole[ShownOfWhole] = shown
      BY <3>2, <3>3, <3>4, Zenon
    <3> QED
      BY <2>4, <2>6, <2>8, <3>5 DEF ActiveTab
  <2> QED
    BY <1>5, <1>8, <2>4, <2>7, <2>8 DEF LeftInFront
<1> QED
  BY <1>3, <1>6, <1>7, <1>8

\* What ends merged is what the source's group held, tab by tab, with the same tab in
\* front, or the last one if the command that shows it could not be sent (the merge is Ok
\* all the same), in a group of its own beside the target's tabs: for any group of distinct
\* tabs, with or without paths, however many of them are captured, and whatever
\* listens on the ports, as long as VS Code is reached, no wait is too short and the
\* user keeps away
\* (capture_active_group_paths, merge_into_target).
THEOREM MergedGroupIsWhole == MergeSpec => []GroupArrivesWhole
<1>1. GroupInv /\ ClipInv /\ [VscodeMergeNext]_mergeVars => GroupInv' /\ ClipInv'
  BY GroupStep, ClipStep
<1> QED
  BY GroupInit, ClipInit, GroupIsWhole, <1>1, PTL DEF MergeSpec
====
