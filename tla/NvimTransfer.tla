---- MODULE NvimTransfer ----
(***************************************************************************)
(* Moving a buffer between nvim instances                                  *)
(* (src/src/adapters/apps/nvim.rs).  A tear-out splits the terminal, types *)
(* a launch command into the new pane, waits for that nvim and then drops  *)
(* the buffer at the source.  A merge quits a torn-out source, waits for   *)
(* its process and its swap file to go, opens the file in the target and   *)
(* has the shell of the source's pane exit.                                *)
(*                                                                         *)
(* Between two calls of the adapter the user may edit, change buffer or    *)
(* focus another pane, the split may appear late, the launched nvim may    *)
(* start late or never and a server that was told to quit may linger.      *)
(* MaxLooks stands for the 20 and 40 looks of the waits; MaxCalls, MaxUser *)
(* and MaxNvimFail bound the calls, the user's acts and failing commands.  *)
(***************************************************************************)
EXTENDS Naturals, FiniteSets

CONSTANTS NvimServer, NvimPane, File, FirstServer, FirstPane, NoServer, NoPane, NoFile,
          MaxLooks, MaxCalls, MaxUser, MaxNvimFail

ASSUME NvimAssumption == /\ FirstServer \in NvimServer /\ FirstPane \in NvimPane
                         /\ NoServer \notin NvimServer
                         /\ NoPane \notin NvimPane
                         /\ NoFile \notin File /\ File # {}
                         /\ MaxLooks \in Nat \ {0}

VARIABLES
  ed,      \* each nvim instance
  panes,   \* panes of the terminal
  focus,   \* the one with the focus
  split,   \* a split asked for that does not show yet
  starting,\* launch commands typed at a shell: {} or one record
  at, call,\* where the adapter is in which call
  hist,    \* history: what the properties compare with
  calls, users, nfails

screen   == <<panes, focus, split>>
nvimVars == <<ed, panes, focus, split, starting, at, call, hist, calls, users, nfails>>

NoNvim == [run |-> FALSE, dying |-> FALSE, mute |-> FALSE, torn |-> FALSE, pane |-> NoPane,
           open |-> {}, cur |-> NoFile, edited |-> {}, wins |-> 1]
NoCall == [op |-> "none", src |-> NoServer, tgt |-> NoServer, file |-> NoFile, pane |-> NoPane,
           new |-> NoPane, torn |-> FALSE, swap |-> FALSE, looks |-> 0]
NoHist == [touched |-> FALSE, elsewhere |-> FALSE, gaveUp |-> FALSE, overlap |-> FALSE,
           mistyped |-> FALSE, stranded |-> FALSE, lost |-> {}]

\* One nvim that shows two windows of a saved file, and a shell beside it.
NvimInit == /\ ed = [s \in NvimServer |-> IF s = FirstServer
                     THEN [NoNvim EXCEPT !.run = TRUE, !.pane = FirstPane, !.wins = 2,
                                         !.open = File, !.cur = CHOOSE f \in File : TRUE]
                     ELSE NoNvim]
            /\ panes = {FirstPane}
            /\ focus = FirstPane
            /\ split = FALSE
            /\ starting = {}
            /\ at = "idle"
            /\ call = NoCall
            /\ hist = NoHist
            /\ calls = 0 /\ users = 0 /\ nfails = 0

Live(s) == ed[s].run /\ ~ed[s].dying
At(p) == {s \in NvimServer : ed[s].run /\ ed[s].pane = p}
NvimFails == nfails < MaxNvimFail /\ nfails' = nfails + 1
NvimWorks == UNCHANGED nfails
Idle == at' = "idle"
Looked == call' = [call EXCEPT !.looks = @ + 1]

\* Edits that a command of the adapter throws away.  An edit is raced if it was
\* made after the snapshot was taken, and aside if not of the snapshot's file.
Discarded(s, files) == {[file |-> f, raced |-> hist.touched, aside |-> f # call.file] :
                          f \in ed[s].edited \cap files}

-----------------------------------------------------------------------------
(* Terminal, servers and user *)

SplitAppears == /\ split
                /\ \E p \in NvimPane \ panes :
                     /\ panes' = panes \cup {p}
                     /\ focus' = p
                     /\ call' = [call EXCEPT !.new = p]
                /\ split' = FALSE
                /\ UNCHANGED <<ed, starting, at, hist, calls, users, nfails>>

\* The shell runs the launch command: the server listens on a socket whose name
\* starts with tearout- and shows the file.  What else was typed there, it reads.
TargetStarts == \E l \in starting, s \in NvimServer \ {call.src} :
  /\ ed[s] = NoNvim /\ l.pane \in panes
  /\ ed' = [ed EXCEPT ![s] = [NoNvim EXCEPT !.run = TRUE, !.torn = TRUE, !.pane = l.pane,
                                            !.open = {l.file}, !.cur = l.file]]
  /\ call' = IF l.of = calls THEN [call EXCEPT !.tgt = s] ELSE call
  /\ starting' = {k \in starting : k.pane # l.pane}
  /\ UNCHANGED <<screen, at, hist, calls, users, nfails>>

\* A server told to quit stops answering, then removes its swap files and ends.
ServerExits == \E s \in NvimServer :
  /\ ed[s].dying
  /\ ed' = [ed EXCEPT ![s] = IF @.mute THEN NoNvim ELSE [@ EXCEPT !.mute = TRUE]]
  /\ UNCHANGED <<screen, starting, at, call, hist, calls, users, nfails>>

UserTurn == users < MaxUser /\ users' = users + 1
            /\ UNCHANGED <<panes, split, starting, at, call, calls, nfails>>

UserFocuses == /\ UserTurn
               /\ \E p \in panes \ {focus} : focus' = p
               /\ UNCHANGED <<ed, hist>>

UserEdits == /\ UserTurn
             /\ \E s \in At(focus) : /\ Live(s) /\ ed[s].cur # NoFile
                                     /\ ed' = [ed EXCEPT ![s].edited = @ \cup {ed[s].cur}]
             /\ hist' = [hist EXCEPT !.touched = TRUE]
             /\ UNCHANGED focus

UserSwitchesBuffer == /\ UserTurn
                      /\ \E s \in At(focus), f \in File :
                           /\ Live(s) /\ f # ed[s].cur
                           /\ ed' = [ed EXCEPT ![s].cur = f, ![s].open = @ \cup {f}]
                      /\ hist' = [hist EXCEPT !.touched = TRUE]
                      /\ UNCHANGED focus

-----------------------------------------------------------------------------
(* move_internal at the edge: tear_out_to_terminal_pane *)

AnyBuffer(s) == ed[s].cur # NoFile
\* ensure_mergeable_snapshot: a saved buffer with a file.
Mergeable(s) == ed[s].cur # NoFile /\ ed[s].cur \notin ed[s].edited

\* move_decision and at_edge: with one window the engine is told to pass the
\* move on, and off the edge nvim rearranges its own windows.
StartTearOut == \E s \in At(focus) :
  /\ at = "idle" /\ calls < MaxCalls /\ calls' = calls + 1
  /\ Live(s) /\ ed[s].wins > 1
  /\ hist' = [NoHist EXCEPT !.lost = hist.lost]
  /\ IF Mergeable(s)
     THEN /\ call' = [NoCall EXCEPT !.op = "tear", !.src = s, !.file = ed[s].cur]
          /\ at' = "mux"
     ELSE /\ call' = NoCall
          /\ Idle
  /\ UNCHANGED <<ed, screen, starting, users, nfails>>

\* The plugin in nvim names the source's pane: its own, or the one that has the focus by
\* now.  Without the plugin there is no pane.
ReadSourcePane == /\ at = "mux"
                  /\ \/ /\ NvimWorks
                        /\ \E p \in {ed[call.src].pane, focus} : call' = [call EXCEPT !.pane = p]
                        /\ at' = "split"
                     \/ NvimFails /\ Idle /\ UNCHANGED call
                  /\ UNCHANGED <<ed, screen, starting, hist, calls, users>>

\* It splits the terminal; without it split_pane is false.
SplitPane == /\ at = "split"
             /\ \/ /\ NvimWorks
                   /\ split' = TRUE
                   /\ at' = "pane"
                \/ NvimFails /\ Idle /\ UNCHANGED split
             /\ UNCHANGED <<ed, panes, focus, starting, call, hist, calls, users>>

\* A pane is taken for the new one if it is not the source's.
NotSource(p) == p # call.pane

\* One of the rounds of wait_for_target_terminal_pane: the focused pane, or the
\* one in the direction, or what the plugin takes for the current one.  Before the
\* split shows, the pane in the direction may be one that was there.
Beside == IF call.new = NoPane THEN panes \ {call.pane} ELSE {call.new} \cap panes
CurrentPane == {p \in {call.pane, focus} : NotSource(p)}
PaneUnfocused == IF Beside # {} THEN Beside ELSE CurrentPane
PaneFound == IF NotSource(focus) THEN {focus} ELSE PaneUnfocused

TypeLaunch(p) ==
  /\ starting' = IF At(p) = {} THEN starting \cup {[pane |-> p, file |-> call.file, of |-> calls]}
                 ELSE starting
  /\ call' = [call EXCEPT !.looks = 0]
  /\ at' = "ready" /\ UNCHANGED hist

FindTargetPane ==
  /\ at = "pane"
  /\ \/ NvimWorks /\ \E p \in PaneFound : TypeLaunch(p)
     \/ NvimFails /\ \E p \in PaneUnfocused \cup CurrentPane : TypeLaunch(p)
     \/ /\ PaneFound = {} /\ call.looks < MaxLooks
        /\ NvimWorks
        /\ Looked
        /\ UNCHANGED <<at, starting, hist>>
     \/ /\ Idle
        /\ (PaneFound = {} /\ call.looks = MaxLooks /\ NvimWorks) \/ NvimFails
        /\ UNCHANGED <<call, starting, hist>>
  /\ UNCHANGED <<ed, screen, calls, users>>

\* After the last look the call fails and the source keeps the buffer.
TornOutLate == Idle
DropsAnyway == at' = "cleanup"
WaitsOn == UNCHANGED at
TargetTooLate == TornOutLate

WaitTarget ==
  /\ at = "ready"
  /\ \/ call.tgt # NoServer /\ at' = "cleanup" /\ UNCHANGED call
     \/ call.tgt = NoServer /\ call.looks < MaxLooks /\ Looked /\ UNCHANGED at
     \/ call.tgt = NoServer /\ call.looks = MaxLooks /\ TargetTooLate /\ UNCHANGED call
  /\ UNCHANGED <<ed, screen, starting, hist, calls, users, nfails>>

\* The column is sent to the target, then the source closes a window and deletes
\* the buffer that is current by now.  Either command may fail.
Cleaned(e) == LET left == e.open \ {e.cur}
              IN [e EXCEPT !.wins = IF @ > 1 THEN @ - 1 ELSE @, !.open = left,
                           !.edited = @ \ {e.cur},
                           !.cur = IF left = {} THEN NoFile ELSE CHOOSE f \in left : TRUE]

CleanupSource ==
  /\ at = "cleanup"
  /\ \/ /\ NvimWorks
        /\ hist' = [hist EXCEPT !.lost = @ \cup Discarded(call.src, {ed[call.src].cur})]
        /\ ed' = [ed EXCEPT ![call.src] = Cleaned(@)]
     \/ NvimFails /\ UNCHANGED <<hist, ed>>
  /\ Idle
  /\ UNCHANGED <<screen, starting, call, calls, users>>

-----------------------------------------------------------------------------
(* prepare_merge at the source, merge_into_target at the target *)

\* The engine has found the source by the focused pane and takes its snapshot.
PrepareMerge == \E s \in At(focus) :
  /\ at = "idle" /\ calls < MaxCalls /\ calls' = calls + 1
  /\ Live(s) /\ NvimWorks
  /\ hist' = [NoHist EXCEPT !.lost = hist.lost]
  /\ IF Mergeable(s)
     THEN /\ call' = [NoCall EXCEPT !.op = "merge", !.src = s, !.file = ed[s].cur, !.torn = ed[s].torn]
          /\ at' = "pane_read"
     ELSE /\ call' = NoCall
          /\ Idle
  /\ UNCHANGED <<ed, screen, starting, users>>

\* The pane with the focus is taken for the source's, although the user may have moved
\* on since the engine looked.  It is left out when it cannot be read.
ReadFocusedPane == /\ at = "pane_read"
                   /\ \E p \in {focus, NoPane} :
                        /\ call' = [call EXCEPT !.pane = p]
                        /\ hist' = [hist EXCEPT !.elsewhere = p \notin {NoPane, ed[call.src].pane}]
                   /\ at' = "swap_read"
                   /\ UNCHANGED <<ed, screen, starting, calls, users, nfails>>

\* The swap file of what the source shows by now, or none; a failing call ends the merge.
ReadSwap == /\ at = "swap_read"
            /\ \/ /\ NvimWorks
                  /\ \E swap \in BOOLEAN : call' = [call EXCEPT !.swap = swap]
                  /\ at' = "target"
               \/ NvimFails /\ Idle /\ UNCHANGED call
            /\ UNCHANGED <<ed, screen, starting, hist, calls, users>>

\* The target's adapter is found after the focus has moved to it.
MergeIntoTarget == \E t \in NvimServer :
  /\ at = "target"
  /\ Live(t)
  /\ call' = [call EXCEPT !.tgt = t]
  /\ focus' = ed[t].pane
  /\ at' = "close"
  /\ UNCHANGED <<ed, panes, split, starting, hist, calls, users, nfails>>

\* The torn-out source is another server: it is quit, and so is all it has open.
QuitsSource == call.torn /\ call.src # call.tgt

CloseSource ==
  /\ at = "close"
  /\ IF QuitsSource
     THEN \/ /\ NvimWorks
             /\ ed' = [ed EXCEPT ![call.src] = [@ EXCEPT !.dying = TRUE, !.open = {}, !.cur = NoFile,
                                                         !.edited = {}]]
             /\ hist' = [hist EXCEPT !.lost = @ \cup Discarded(call.src, File)]
             /\ at' = "exit"
          \/ NvimFails /\ Idle /\ UNCHANGED <<ed, hist>>
     ELSE at' = "open" /\ NvimWorks /\ UNCHANGED <<ed, hist>>
  /\ call' = [call EXCEPT !.looks = 0]
  /\ UNCHANGED <<screen, starting, calls, users>>

\* A call that fails counts as the server's exit.
WaitExit ==
  /\ at = "exit"
  /\ \/ /\ NvimWorks
        /\ IF ed[call.src].run /\ ~ed[call.src].mute /\ call.looks < MaxLooks
           THEN Looked /\ UNCHANGED at
           ELSE at' = "swap" /\ call' = [call EXCEPT !.looks = 0]
     \/ NvimFails /\ at' = "swap" /\ call' = [call EXCEPT !.looks = 0]
  /\ UNCHANGED <<ed, screen, starting, hist, calls, users>>

SwapExists == call.swap /\ ed[call.src].run
NeverThere == FALSE
SwapSeen == SwapExists

WaitSwap ==
  /\ at = "swap"
  /\ IF SwapSeen /\ call.looks < MaxLooks
     THEN Looked /\ UNCHANGED <<at, hist>>
     ELSE /\ at' = "open"
          /\ hist' = [hist EXCEPT !.gaveUp = SwapSeen]
          /\ UNCHANGED call
  /\ UNCHANGED <<ed, screen, starting, calls, users, nfails>>

\* luaeval in the target: split, edit, cursor.
ShowsToo(e, file) == [e EXCEPT !.open = @ \cup {file}, !.cur = file, !.wins = 2]
OpenInTarget ==
  /\ at = "open"
  /\ \/ /\ NvimWorks
        /\ ed' = [ed EXCEPT ![call.tgt] = ShowsToo(@, call.file)]
        /\ hist' = [hist EXCEPT !.overlap = QuitsSource /\ ed[call.src].run]
        /\ at' = "pane_exit"
     \/ /\ NvimFails
        /\ UNCHANGED ed
        /\ hist' = [hist EXCEPT !.stranded = QuitsSource]
        /\ Idle
  /\ UNCHANGED <<screen, starting, call, calls, users>>

\* Only if both are in one terminal and the pane is known: its shell exits, or
\* whatever runs there reads the text.  A failing command is ignored.
ExitText(p) == IF At(p) = {} /\ p \in panes THEN panes \ {p} ELSE panes

CleanupPane ==
  /\ at = "pane_exit"
  /\ \/ UNCHANGED <<panes, hist>>
     \/ /\ call.pane # NoPane /\ QuitsSource
        /\ panes' = ExitText(call.pane)
        /\ hist' = [hist EXCEPT !.mistyped = At(call.pane) # {}]
  /\ focus' = IF focus \in panes' THEN focus ELSE ed[call.tgt].pane
  /\ Idle
  /\ UNCHANGED <<ed, split, starting, call, calls, users, nfails>>

-----------------------------------------------------------------------------

TearOutStep == ReadSourcePane \/ SplitPane \/ FindTargetPane \/ WaitTarget \/ CleanupSource
MergeStep   == \/ ReadFocusedPane \/ ReadSwap \/ MergeIntoTarget \/ CloseSource
               \/ WaitExit \/ WaitSwap \/ OpenInTarget \/ CleanupPane
UserStep    == UserFocuses \/ UserEdits \/ UserSwitchesBuffer

NvimNext == \/ StartTearOut \/ PrepareMerge
            \/ TearOutStep \/ MergeStep
            \/ SplitAppears \/ TargetStarts \/ ServerExits
            \/ UserStep

NvimSpec == NvimInit /\ [][NvimNext]_nvimVars /\ WF_nvimVars(TearOutStep \/ MergeStep)

-----------------------------------------------------------------------------

NvimTypeOK ==
  /\ \A s \in NvimServer : /\ ed[s].pane \in NvimPane \cup {NoPane}
                           /\ ed[s].edited \subseteq ed[s].open /\ ed[s].open \subseteq File
                           /\ ed[s].cur \in ed[s].open \cup {NoFile}
                           /\ ed[s].dying => ed[s].run
  /\ focus \in panes /\ panes \subseteq NvimPane
  /\ call.looks \in 0..MaxLooks
  /\ at \in {"idle", "mux", "split", "pane", "ready", "cleanup", "pane_read", "swap_read", "target",
             "close", "exit", "swap", "open", "pane_exit"}

\* A transfer that goes on without a race discards no unsaved edit of the buffer it
\* moves: the buffer was found saved, and what the source drops later is that buffer.
CheckedEditsKept == \A l \in hist.lost : l.raced \/ l.aside

\* Whatever the call's outcome, when it has returned the buffer is open in an nvim
\* that stays, unless the target failed to open it after the source had been quit.
BufferHeld == at = "idle" /\ call.op # "none" =>
                hist.stranded \/ \E s \in NvimServer : Live(s) /\ call.file \in ed[s].open

\* With a swap file to watch, the target opens the file only when the source's process
\* has ended, or after the last look; and no editor is told to exit before that, unless
\* the user went to its pane while the merge was being prepared: the pane whose shell is
\* to exit is the one that had the focus when it was read.
SourceGoneFirst ==
  call.swap /\ ~hist.gaveUp => ~hist.overlap /\ (hist.mistyped => hist.elsewhere)

\* A call ends: each of its waits gives up, and none depends on the other side.
EveryCallReturns == at # "idle" ~> at = "idle"

\* The adapter says that a merge "requires a saved buffer; please save first":
\* with no race, a transfer discards no unsaved edit of any buffer.
UnsavedEditsSurvive == \A l \in hist.lost : l.raced

====
