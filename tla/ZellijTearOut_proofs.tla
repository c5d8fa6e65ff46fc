---- MODULE ZellijTearOut_proofs ----
(***************************************************************************)
(* Proofs about zellij's tear-out, for any number of panes, tear-outs,     *)
(* looks, checks, failures and acts of others.  A lemma per action says    *)
(* what it does to the state that matters (...Effect); a look of the       *)
(* plugin is one of five things, whoever asked for it (LookEffect).  The   *)
(* inductive invariant ZInv is the conjunction of                          *)
(*   ZType    the types, and that the plugin watches one thing at most,    *)
(*   Untorn   that undisturbed no terminal comes before the first break,   *)
(*   Watched  that each look costs the watch one of its attempts,          *)
(*   Awaited  that the torn-out pane is shown until its terminal comes,    *)
(*   Left     that until the pane is alone the tab shown holds several,    *)
(*            unless the tear-out has strayed,                             *)
(* and each conjunct has a lemma with a step per action of Next.           *)
(***************************************************************************)
EXTENDS ZellijTearOut, FiniteSetTheorems, TLAPS

\* What is watched, asked for and remembered are records of their kind.
IsWatch(w) == /\ w = [index |-> w.index, base |-> w.base, left |-> w.left, seen |-> w.seen]
              /\ w.left \in Nat /\ w.seen \in BOOLEAN
IsReq(r) == r = [pane |-> r.pane, index |-> r.index, base |-> r.base, sent |-> r.sent, checks |-> r.checks]
Entries(s) == {s[i] : i \in 1..Len(s)}
History == [opened : Nat, torn : Nat, looks : Nat, joined : BOOLEAN, quiet : BOOLEAN,
            strayed : BOOLEAN]

\* The types.
ZType ==
  /\ home \in [Pane -> 0..h.opened] /\ h \in History
  /\ attached \in Nat /\ coming \in Nat /\ clients \in Nat /\ tears \in Nat
  /\ pc \in {"idle", "pane", "tab", "count", "break", "piped", "check", "spawn", "bailed"}
  /\ IsReq(req) /\ req.pane \in Pane \cup {NoPane}
  /\ pipe \in Seq(Entries(pipe)) /\ \A m \in Entries(pipe) : m.pane \in Pane \cup {NoPane}
  /\ \A w \in pending : IsWatch(w)
  /\ \A w, v \in pending : v = w

\* A move_out that has found several panes and not yet seen the last one alone.
Moving == pc \in {"pane", "tab", "count", "break", "piped", "check"}

\* Since the last break and with looks left.
Early == h.quiet /\ h.looks < MaxAttempts /\ h.torn # 0

\* Undisturbed and before the first break, a move_out sees several panes and spawns nothing.
Untorn == h.quiet /\ h.torn = 0 => /\ pending = {} /\ coming = 0 /\ pc # "spawn"
                                   /\ Moving => Cardinality(PanesOf(active)) > 1

\* A watch counts from the clients there were, and each look costs it an attempt.
Watched == \A w \in pending : h.quiet =>
             /\ active = h.torn
             /\ w.seen => h.joined
             /\ ~h.joined => attached = w.base
             /\ ~w.seen => w.left + h.looks = MaxAttempts

\* Until the new terminal comes or the looks are used up, the torn-out pane's tab is
\* shown; once it has come no other is on its way before the next break.
Awaited ==
  /\ h.quiet => clients <= attached
  /\ h.quiet /\ h.torn # 0 => \E p \in Pane : PanesOf(h.torn) = {p}
  /\ Early /\ ~h.joined => active = h.torn /\ (coming > 0 => coming = 1 /\ pc = "idle")
  /\ Early /\ h.joined => coming = 0 /\ pc # "spawn" /\ (Moving => Cardinality(PanesOf(active)) > 1)

\* Until the pane is alone the tab shown holds several panes, or the tear-out has strayed.
Left == ~h.strayed => /\ Moving => Detached \/ Cardinality(PanesOf(active)) > 1
                      /\ pc = "spawn" => Detached
Unread == pc = "pane" => req.pane = NoPane

\* The inductive invariant.
ZInv == ZType /\ Untorn /\ Watched /\ Awaited /\ Unread /\ Left

\* The two things a plugin's look can do to the watch.
LEMMA LookTyped ==
  ASSUME ZType, NEW w, h' = Look(w)
  PROVE  /\ h' \in History /\ h'.opened = h.opened /\ h'.torn = h.torn
         /\ h'.joined = h.joined /\ h'.quiet = h.quiet /\ h'.strayed = h.strayed
         /\ h'.looks = IF h.looks < MaxAttempts THEN h.looks + 1 ELSE h.looks
<1>. DEFINE n == IF h.looks < MaxAttempts THEN h.looks + 1 ELSE h.looks
<1>1. h' = [h EXCEPT !.looks = n]
  BY DEF Look
<1>2. n \in Nat
  BY ZellijAssumption DEF ZType, History
<1>. HIDE DEF n
<1>3. h' \in History /\ h'.opened = h.opened /\ h'.torn = h.torn /\ h'.joined = h.joined /\ h'.quiet = h.quiet
      /\ h'.looks = n /\ h'.strayed = h.strayed
  BY <1>1, <1>2 DEF ZType, History
<1>. QED
  BY <1>3 DEF n

\* The same of a look that shows another tab, which may be astray.
LEMMA StrayTyped ==
  ASSUME ZType, NEW w, h' = Strayed(Look(w))
  PROVE  /\ h' \in History /\ h'.opened = h.opened /\ h'.torn = h.torn
         /\ h'.joined = h.joined /\ h'.quiet = h.quiet /\ h'.strayed = (h.strayed \/ ~Detached)
         /\ h'.looks = IF h.looks < MaxAttempts THEN h.looks + 1 ELSE h.looks
<1>. DEFINE n == IF h.looks < MaxAttempts THEN h.looks + 1 ELSE h.looks
            x == h.strayed \/ ~Detached
<1>1. h' = [[h EXCEPT !.looks = n] EXCEPT !.strayed = [h EXCEPT !.looks = n].strayed \/ ~Detached]
  BY DEF Look, Strayed
<1>2. n \in Nat /\ x \in BOOLEAN
  BY ZellijAssumption DEF ZType, History
<1>3. [h EXCEPT !.looks = n].strayed = h.strayed
  BY DEF ZType, History
<1>4. h' = [[h EXCEPT !.looks = n] EXCEPT !.strayed = x]
  BY <1>1, <1>3
<1>. HIDE DEF n, x
<1>5. /\ h' \in History /\ h'.opened = h.opened /\ h'.torn = h.torn
      /\ h'.joined = h.joined /\ h'.quiet = h.quiet /\ h'.strayed = x /\ h'.looks = n
  BY <1>2, <1>4 DEF ZType, History
<1>. QED
  BY <1>5 DEF n, x

\* What a look leaves of the history, and what it counts;
SameButLooks == /\ h'.opened = h.opened /\ h'.torn = h.torn
                /\ h'.joined = h.joined /\ h'.quiet = h.quiet
Straying == /\ h.strayed => h'.strayed
            /\ UNCHANGED active \/ h'.strayed \/ Detached
LookedOn == h'.looks = IF h.looks < MaxAttempts THEN h.looks + 1 ELSE h.looks

\* what it does to the watch.
LookedAt(w, n) ==
  \/ pending' = {} /\ UNCHANGED active
  \/ pending' = {} /\ (w.seen \/ w.left <= 1)
  \/ /\ ~w.seen /\ n >= w.base + 1 /\ UNCHANGED active
     /\ \E v : pending' = {v} /\ IsWatch(v) /\ v.seen /\ v.base = w.base /\ v.left = w.left
  \/ w.seen /\ pending' = {w} /\ UNCHANGED active
  \/ /\ ~w.seen /\ w.left > 1 /\ UNCHANGED active
     /\ \E v : /\ pending' = {v} /\ IsWatch(v) /\ ~v.seen
              /\ v.base = w.base /\ v.left = w.left - 1

\* A look with nothing to watch, or with one thing.
LEMMA LookEffect ==
  ASSUME ZType, NEW n, NEW fromTimer, NEW ts, NEW as, MaybeRestore(n, fromTimer, ts, as)
  PROVE  \/ UNCHANGED <<active, pending, h>>
         \/ /\ h' \in History /\ SameButLooks /\ Straying /\ LookedOn
            /\ \E w \in pending : LookedAt(w, n)
<1>1. CASE UNCHANGED <<active, pending, h>>
  BY <1>1
<1>2. ASSUME NEW w \in pending, Returned(w, ts, as) PROVE pending' = {} /\ UNCHANGED active /\ h' = Look(w)
  BY <1>2 DEF Returned
<1>3. ASSUME NEW w \in pending, Joined(w, n, ts, as)
      PROVE  /\ ~w.seen /\ n >= w.base + 1 /\ UNCHANGED active /\ h' = Look(w)
             /\ \E v : pending' = {v} /\ IsWatch(v) /\ v.seen /\ v.base = w.base /\ v.left = w.left
  <2>1. PICK i, b, l, x : w = [index |-> i, base |-> b, left |-> l, seen |-> x] /\ l \in Nat /\ x \in BOOLEAN
    BY DEF ZType, IsWatch
  <2>. DEFINE v == [index |-> i, base |-> b, left |-> l, seen |-> TRUE]
  <2>2. v = [w EXCEPT !.seen = TRUE]
    <3>1. [w EXCEPT !.seen = TRUE] = [[index |-> i, base |-> b, left |-> l, seen |-> x] EXCEPT !.seen = TRUE]
      BY <2>1
    <3>2. \A y : [[index |-> i, base |-> b, left |-> l, seen |-> x] EXCEPT !.seen = y]
                  = [index |-> i, base |-> b, left |-> l, seen |-> y]
      OBVIOUS
    <3>. QED
      BY <3>1, <3>2, Zenon
  <2>3. IsWatch(v) /\ v.seen /\ v.base = w.base /\ v.left = w.left
    BY <2>1 DEF IsWatch
  <2>4. pending' = {v}
    BY <1>3, <2>2 DEF Joined
  <2>. QED
    BY <1>3, <2>3, <2>4 DEF Joined, SeesJoin
<1>4. ASSUME NEW w \in pending, Restore(w, n, fromTimer, ts, as)
      PROVE  pending' = {} /\ (w.seen \/ w.left <= 1) /\ h' = Strayed(Look(w))
  BY <1>4 DEF Restore, Due
<1>5. ASSUME NEW w \in pending, Wait(w, n, fromTimer, ts, as)
      PROVE  /\ UNCHANGED active /\ h' = Look(w)
             /\ \/ w.seen /\ pending' = {w}
                \/ /\ ~w.seen /\ w.left > 1
                   /\ \E v : pending' = {v} /\ IsWatch(v) /\ ~v.seen /\ v.base = w.base /\ v.left = w.left - 1
  <2>1. w = [index |-> w.index, base |-> w.base, left |-> w.left, seen |-> w.seen] /\ w.left \in Nat
    BY DEF ZType, IsWatch
  <2>2. CASE ~w.seen
    <3>. DEFINE v == [index |-> w.index, base |-> w.base, left |-> w.left - 1, seen |-> w.seen]
    <3>1. w.left > 1 /\ pending' = {[w EXCEPT !.left = w.left - 1]}
      BY <1>5, <2>1, <2>2 DEF Wait, Due
    <3>2. v = [w EXCEPT !.left = w.left - 1]
      BY <2>1
    <3>3. IsWatch(v) /\ ~v.seen /\ v.base = w.base /\ v.left = w.left - 1
      BY <2>1, <2>2, <3>1 DEF IsWatch, ZType
    <3>4. pending' = {v}
      BY <3>1, <3>2
    <3>. QED
      BY <1>5, <2>2, <3>1, <3>3, <3>4 DEF Wait
  <2>3. CASE w.seen
    BY <1>5, <2>3 DEF Wait
  <2>. QED
    BY <2>2, <2>3
<1>. QED
  BY <1>1, <1>2, <1>3, <1>4, <1>5, LookTyped, StrayTyped DEF MaybeRestore, SameButLooks, Straying, LookedOn, LookedAt

\* What is broken out is alone in a new tab, and the watch counts from what it found.
LEMMA BreakEffect ==
  ASSUME ZType, Break
  PROVE  /\ pipe # <<>> /\ pipe' = Tail(pipe)
         /\ UNCHANGED <<attached, coming, clients, pc, req, tears>>
         /\ \/ /\ Head(pipe).pane = NoPane
               /\ UNCHANGED <<tabs, home, active, pending, h>>
            \/ \E p \in Pane :
                 /\ Head(pipe).pane # NoPane => p = Head(pipe).pane
                 /\ home' = [home EXCEPT ![p] = NewTab] /\ active' = NewTab
                 /\ h' \in History /\ h'.opened = NewTab /\ h'.torn = NewTab /\ h'.looks = 0
                 /\ h'.strayed = (h.strayed \/ (p # req.pane /\ ~Detached))
                 /\ h'.quiet => /\ h.quiet /\ coming = 0 /\ pending = {} /\ ~h'.joined
                                /\ PanesOf(home[p]) # {p}
                                /\ \A w \in pending' : w.base = attached /\ ~w.seen /\ w.left = MaxAttempts
                 /\ \A w \in pending' : IsWatch(w)
                 /\ \A w, v \in pending' : v = w
<1>. DEFINE m == Head(pipe)
<1>1. /\ pipe # <<>> /\ pipe' = Tail(pipe)
      /\ UNCHANGED <<attached, coming, clients, pc, req, tears>>
  BY DEF Break, adapter
<1>. m.pane \in Pane \cup {NoPane}
  BY <1>1 DEF ZType, Entries
<1>2. CASE m.pane = NoPane /\ UNCHANGED <<tabs, home, active, pending, h>>
  BY <1>1, <1>2
<1>3. ASSUME NEW p \in IF m.pane # NoPane THEN {m.pane} ELSE OpenPanes,
             home' = [home EXCEPT ![p] = NewTab], active' = NewTab, pending' = Watch(m),
             h' = [h EXCEPT !.opened = NewTab, !.torn = NewTab,
                            !.looks = 0, !.joined = attached > Baseline(m),
                            !.strayed = @ \/ (p # req.pane /\ ~Detached),
                            !.quiet = @ /\ SourceIndex(m) = Pos(active)
                                        /\ Baseline(m) = attached
                                        /\ PanesOf(home[p]) # {p}
                                        /\ pending = {} /\ coming = 0]
      PROVE  /\ h' \in History /\ h'.opened = NewTab /\ h'.torn = NewTab /\ h'.looks = 0
             /\ h'.strayed = (h.strayed \/ (p # req.pane /\ ~Detached))
             /\ h'.quiet => /\ h.quiet /\ coming = 0 /\ pending = {} /\ ~h'.joined
                            /\ PanesOf(home[p]) # {p}
                            /\ \A w \in pending' : w.base = attached /\ ~w.seen /\ w.left = MaxAttempts
             /\ \A w \in pending' : IsWatch(w)
             /\ \A w, v \in pending' : v = w
  <2>. DEFINE j == attached > Baseline(m)
              k == h.strayed \/ (p # req.pane /\ ~Detached)
              q == /\ h.quiet /\ SourceIndex(m) = Pos(active) /\ Baseline(m) = attached
                   /\ PanesOf(home[p]) # {p} /\ pending = {} /\ coming = 0
              r == [index |-> SourceIndex(m), base |-> Baseline(m), left |-> MaxAttempts, seen |-> FALSE]
  <2>1. j \in BOOLEAN /\ q \in BOOLEAN /\ k \in BOOLEAN
    BY DEF ZType, History
  <2>2. h' = [h EXCEPT !.opened = NewTab, !.torn = NewTab, !.looks = 0, !.joined = j, !.strayed = k, !.quiet = q]
    BY <1>3, Zenon
  <2>3. q => /\ h.quiet /\ coming = 0 /\ pending = {} /\ PanesOf(home[p]) # {p} /\ Baseline(m) = attached
    OBVIOUS
  <2>4. Baseline(m) = attached => ~j
    BY DEF ZType
  <2>5. IsWatch(r) /\ r.base = Baseline(m) /\ ~r.seen /\ r.left = MaxAttempts
    BY ZellijAssumption DEF IsWatch
  <2>6. pending' = {r} \/ pending' = pending
    BY <1>3 DEF Watch
  <2>. HIDE DEF j, k, q, r
  <2>. NewTab \in Nat
    BY DEF ZType, History, NewTab
  <2>7. h' \in History /\ h'.opened = NewTab /\ h'.torn = NewTab /\ h'.looks = 0 /\ h'.joined = j /\ h'.quiet = q
        /\ h'.strayed = k
    BY <2>1, <2>2 DEF ZType, History
  <2>. QED
    BY <2>3, <2>4, <2>5, <2>6, <2>7 DEF ZType, k
<1>4. OpenPanes \subseteq Pane
  BY DEF OpenPanes
<1>. QED
  BY <1>1, <1>2, <1>3, <1>4 DEF Break, StartsWatch

\* Broken out: alone in the new tab.
LEMMA BreakAlone ==
  ASSUME ZType, NEW p \in Pane, home' = [home EXCEPT ![p] = NewTab]
  PROVE  /\ home' \in [Pane -> 0..NewTab] /\ home'[p] = NewTab
         /\ {x \in Pane : home'[x] = NewTab} = {p}
<1>1. NewTab \in Nat /\ h.opened \in Nat /\ NewTab = h.opened + 1
  BY DEF ZType, History, NewTab
<1>2. \A x \in Pane : home[x] \in 0..h.opened /\ home'[x] = IF x = p THEN NewTab ELSE home[x]
  BY DEF ZType
<1>3. \A x \in Pane : home'[x] \in 0..NewTab /\ (home'[x] = NewTab <=> x = p)
  BY <1>1, <1>2
<1>4. home' \in [Pane -> 0..NewTab]
  BY <1>3 DEF ZType
<1>. QED
  BY <1>3, <1>4

\* Panes can be counted, and a pane that is alone is one.
LEMMA PanesCounted ==
  ASSUME NEW t
  PROVE  /\ Cardinality(PanesOf(t)) \in Nat
         /\ \A p : PanesOf(t) = {p} => Cardinality(PanesOf(t)) = 1
<1>1. IsFiniteSet(PanesOf(t))
  BY ZellijAssumption, FS_Subset DEF PanesOf
<1>. QED
  BY <1>1, FS_CardinalityType, FS_Singleton

\* What a break leaves alone stays alone, and so does what was alone before.
LEMMA StaysDetached ==
  ASSUME ZType, NEW p \in Pane, home' = [home EXCEPT ![p] = NewTab], UNCHANGED req
  PROVE  /\ Detached => Detached'
         /\ p = req.pane /\ req.pane # NoPane => Detached'
<1>1. NewTab \in Nat /\ h.opened \in Nat /\ NewTab = h.opened + 1
  BY DEF ZType, History, NewTab
<1>2. \A x \in Pane : home[x] \in 0..h.opened /\ home'[x] = IF x = p THEN NewTab ELSE home[x]
  BY DEF ZType
<1>3. ASSUME req.pane # NoPane, p = req.pane PROVE Detached'
  BY <1>3, BreakAlone DEF Detached, PanesOf
<1>4. ASSUME Detached, p # req.pane PROVE Detached'
  <2>1. req.pane \in Pane /\ \A x \in Pane : home[x] = home[req.pane] <=> x = req.pane
    BY <1>4 DEF Detached, PanesOf, ZType
  <2>2. \A x \in Pane : home'[x] = home'[req.pane] <=> x = req.pane
    BY <1>1, <1>2, <1>4, <2>1
  <2>. QED
    BY <1>4, <2>1, <2>2 DEF Detached, PanesOf
<1>. QED
  BY <1>3, <1>4 DEF Detached

\* A tear-out begins: it is astray at once if the tab shown holds one pane.
LEMMA BeginEffect ==
  ASSUME ZType, Begin
  PROVE  /\ pc = "idle" /\ pc' = "pane" /\ IsReq(req') /\ req'.pane = NoPane /\ tears' = tears + 1
         /\ h' \in History /\ h'.opened = h.opened /\ h'.torn = h.torn /\ h'.looks = h.looks
         /\ h'.joined = h.joined /\ h'.strayed = ~Several /\ h'.quiet = (h.quiet /\ Several)
         /\ UNCHANGED <<tabs, home, active, attached, coming, clients, pending, pipe>>
<1>. DEFINE x == ~Several
            q == h.quiet /\ Several
<1>1. h' = [h EXCEPT !.strayed = x, !.quiet = q]
  BY DEF Begin
<1>2. x \in BOOLEAN /\ q \in BOOLEAN
  BY DEF ZType, History
<1>. HIDE DEF x, q
<1>3. /\ h' \in History /\ h'.opened = h.opened /\ h'.torn = h.torn /\ h'.looks = h.looks
      /\ h'.joined = h.joined /\ h'.strayed = x /\ h'.quiet = q
  BY <1>1, <1>2 DEF ZType, History
<1>4. IsReq(req') /\ req'.pane = NoPane
  BY DEF Begin, NoReq, IsReq
<1>. QED
  BY <1>3, <1>4 DEF Begin, server, plugin, x, q

\* It reads the pane.
LEMMA ReadPaneEffect ==
  ASSUME ReadPane
  PROVE  /\ pc = "pane" /\ pc' = "tab" /\ IsReq(req') /\ req'.pane \in Pane \cup {NoPane}
         /\ UNCHANGED <<tabs, home, active, attached, coming, clients, pending, pipe, h, tears>>
<1>1. CASE \E p \in OpenPanes : req' = [NoReq EXCEPT !.pane = p]
  <2>1. PICK p \in Pane : req' = [NoReq EXCEPT !.pane = p]
    BY <1>1 DEF OpenPanes
  <2>2. req' = [pane |-> p, index |-> 0, base |-> 0, sent |-> 0, checks |-> 0]
    BY <2>1 DEF NoReq
  <2>. QED
    BY <2>2 DEF ReadPane, IsReq, server
<1>2. CASE req' = NoReq
  BY <1>2 DEF ReadPane, IsReq, NoReq, server
<1>. QED
  BY <1>1, <1>2 DEF ReadPane

\* The rest of the adapter's move_out, up to the spawn.
AdapterStep == ReadTab \/ ReadCount \/ SendBreak \/ AfterBreak \/ Check \/ Report

\* A request keeps its pane whatever else is read.
LEMMA RequestKept ==
  ASSUME ZType, NEW x
  PROVE  /\ IsReq([req EXCEPT !.index = x]) /\ [req EXCEPT !.index = x].pane = req.pane
         /\ IsReq([req EXCEPT !.base = x]) /\ [req EXCEPT !.base = x].pane = req.pane
         /\ IsReq([req EXCEPT !.sent = x]) /\ [req EXCEPT !.sent = x].pane = req.pane
         /\ IsReq([req EXCEPT !.checks = x]) /\ [req EXCEPT !.checks = x].pane = req.pane
<1>1. PICK p, i, b, s, c : req = [pane |-> p, index |-> i, base |-> b, sent |-> s, checks |-> c]
  BY DEF ZType, IsReq
<1>. QED
  BY <1>1 DEF IsReq

\* Only a check that counts one pane leads to a spawn.
LEMMA AdapterEffect ==
  ASSUME ZType, AdapterStep
  PROVE  /\ IsReq(req') /\ req'.pane = req.pane
         /\ UNCHANGED <<tabs, home, active, attached, coming, clients, pending, h, tears>>
         /\ \/ pc = "tab" /\ pc' = "count" /\ UNCHANGED pipe
            \/ pc = "count" /\ pc' = "break" /\ UNCHANGED pipe
            \/ /\ pc = "break" /\ pc' = "piped"
               /\ \E m : pipe' = Append(pipe, m) /\ m.pane = req.pane
            \/ /\ pc = "piped" /\ UNCHANGED pipe
               /\ pc' \in {"check", "idle"} \/ (pc' = "break" /\ req.pane = NoPane)
            \/ /\ pc = "check" /\ UNCHANGED pipe
               /\ \/ pc' \in {"check", "bailed"}
                  \/ pc' = "spawn" /\ Cardinality(PanesOf(active)) <= 1
            \/ pc = "bailed" /\ pc' = "idle" /\ UNCHANGED pipe
<1>1. IsReq(req)
  BY DEF ZType
<1>2. CASE ReadTab
  BY <1>1, <1>2, RequestKept DEF ReadTab, server, plugin
<1>3. CASE ReadCount
  BY <1>1, <1>3, RequestKept DEF ReadCount, server, plugin
<1>4. CASE SendBreak
  <2>. DEFINE m == [pane |-> req.pane, index |-> req.index, base |-> req.base]
  <2>1. pc = "break" /\ pc' = "piped" /\ pipe' = Append(pipe, m)
        /\ UNCHANGED <<tabs, home, active, attached, coming, clients, pending, h, tears>>
    BY <1>4 DEF SendBreak, server, plugin
  <2>2. IsReq(req') /\ req'.pane = req.pane
    BY <1>4, RequestKept DEF SendBreak
  <2>3. m.pane = req.pane
    OBVIOUS
  <2>. QED
    BY <2>1, <2>2, <2>3
<1>5. CASE AfterBreak
  BY <1>1, <1>5 DEF AfterBreak, server, plugin
<1>6. CASE Check
  BY <1>1, <1>6, RequestKept DEF Check, AfterCheck, Uncounted, server, plugin
<1>7. CASE Report
  BY <1>1, <1>7 DEF Report, server, plugin
<1>. QED
  BY <1>2, <1>3, <1>4, <1>5, <1>6, <1>7 DEF AdapterStep

\* A queue of messages keeps its kind when one is added or taken.
LEMMA QueueKept ==
  ASSUME NEW s, s \in Seq(Entries(s))
  PROVE  /\ \A m : /\ Append(s, m) \in Seq(Entries(Append(s, m)))
                    /\ Entries(Append(s, m)) \subseteq Entries(s) \cup {m}
         /\ s # <<>> => Tail(s) \in Seq(Entries(Tail(s))) /\ Entries(Tail(s)) \subseteq Entries(s)
<1>1. ASSUME NEW S, NEW q \in Seq(S) PROVE q \in Seq(Entries(q))
  BY <1>1 DEF Entries
<1>2. ASSUME NEW m
      PROVE  /\ Append(s, m) \in Seq(Entries(Append(s, m)))
             /\ Entries(Append(s, m)) \subseteq Entries(s) \cup {m}
  <2>. DEFINE a == Append(s, m)
  <2>1. s \in Seq(Entries(s) \cup {m})
    OBVIOUS
  <2>2. a \in Seq(Entries(s) \cup {m})
    BY <2>1
  <2>3. a \in Seq(Entries(a))
    BY <1>1, <2>2
  <2>4. \A i \in 1..Len(a) : a[i] \in Entries(s) \cup {m}
    BY <2>2
  <2>. HIDE DEF a
  <2>. QED
    BY <2>3, <2>4 DEF Entries, a
<1>3. ASSUME s # <<>>
      PROVE  Tail(s) \in Seq(Entries(Tail(s))) /\ Entries(Tail(s)) \subseteq Entries(s)
  <2>. DEFINE t == Tail(s)
  <2>1. t \in Seq(Entries(s))
    BY <1>3
  <2>2. t \in Seq(Entries(t))
    BY <1>1, <2>1
  <2>3. \A i \in 1..Len(t) : t[i] \in Entries(s)
    BY <2>1
  <2>. HIDE DEF t
  <2>. QED
    BY <2>2, <2>3 DEF Entries, t
<1>. QED
  BY <1>2, <1>3

\* A terminal is on its way, or was not spawned.
LEMMA SpawnEffect ==
  ASSUME SpawnTerminal
  PROVE  /\ pc = "spawn" /\ pc' = "idle" /\ coming' \in {coming, coming + 1}
         /\ UNCHANGED <<tabs, home, active, attached, clients, pending, pipe, req, tears, h>>
BY DEF SpawnTerminal, server, plugin

\* An answer or a timer looks once, at the clients known or the clients there are.
LEMMA EventsFrame ==
  ASSUME ListClients \/ Timer
  PROVE  /\ UNCHANGED <<tabs, home, attached, coming, pipe, pc, req, tears>>
         /\ \E n \in {clients, attached} : \E fromTimer, ts, as : MaybeRestore(n, fromTimer, ts, as)
         /\ clients' \in {clients, attached}
<1>1. CASE ListClients
  <2>1. MaybeRestore(attached, FALSE, timers, asks - 1)
    BY <1>1 DEF ListClients
  <2>. QED
    BY <1>1, <2>1 DEF ListClients, adapter
<1>2. CASE Timer
  <2>1. MaybeRestore(clients, TRUE, timers - 1, asks)
    BY <1>2 DEF Timer
  <2>. QED
    BY <1>2, <2>1 DEF Timer, adapter
<1>. QED
  BY <1>1, <1>2

\* What a look leaves of the watch.
LEMMA EventsEffect ==
  ASSUME ZType, ListClients \/ Timer
  PROVE  /\ UNCHANGED <<tabs, home, attached, coming, pipe, pc, req, tears>>
         /\ clients' \in {clients, attached}
         /\ \/ UNCHANGED <<active, pending, h>>
            \/ /\ h' \in History /\ SameButLooks /\ Straying /\ LookedOn
               /\ \E w \in pending, n \in {clients, attached} : LookedAt(w, n)
<1>1. PICK n \in {clients, attached} : \E fromTimer, ts, as : MaybeRestore(n, fromTimer, ts, as)
  BY EventsFrame
<1>2. \/ UNCHANGED <<active, pending, h>>
      \/ /\ h' \in History /\ SameButLooks /\ Straying /\ LookedOn
         /\ \E w \in pending : LookedAt(w, n)
  BY <1>1, LookEffect
<1>. QED
  BY <1>2, EventsFrame

\* Others of the session: a new terminal attaches, the user switches, clients come and go.
\* A spawned terminal joins the session.
LEMMA AttachEffect ==
  ASSUME ZType, Attach
  PROVE  /\ coming > 0 /\ coming' = coming - 1 /\ attached' = attached + 1
         /\ h' \in History /\ h'.joined /\ h'.opened = h.opened /\ h'.torn = h.torn
         /\ h'.looks = h.looks /\ h'.quiet = h.quiet /\ h'.strayed = h.strayed
         /\ UNCHANGED <<tabs, home, active, clients, pending, pipe, pc, req, tears>>
<1>1. h' = [h EXCEPT !.joined = TRUE]
  BY DEF Attach
<1>2. h' \in History /\ h'.joined /\ h'.opened = h.opened /\ h'.torn = h.torn
      /\ h'.looks = h.looks /\ h'.quiet = h.quiet /\ h'.strayed = h.strayed
  BY <1>1 DEF ZType, History
<1>. QED
  BY <1>2 DEF Attach, plugin, adapter

\* The user shows or opens another tab, clients come and go, or a break is refused; the
\* history notes it.
LEMMA OthersEffect ==
  ASSUME ZType, UserSwitches \/ UserOpens \/ OthersChange \/ Refused
  PROVE  /\ h' \in History /\ ~h'.quiet /\ h'.opened \in Nat /\ (h.strayed => h'.strayed)
         /\ attached' \in Nat /\ UNCHANGED <<coming, clients, pc, req, tears>>
         /\ UNCHANGED active \/ h'.strayed \/ Detached
         /\ \/ UNCHANGED home /\ h'.opened = h.opened
            \/ h'.opened = NewTab /\ \E p \in Pane : home' = [home EXCEPT ![p] = NewTab]
         /\ pipe' = pipe \/ (pipe # <<>> /\ pipe' = Tail(pipe))
         /\ \A w \in pending' : IsWatch(w)
         /\ \A w, v \in pending' : v = w
<1>1. CASE UserSwitches \/ UserOpens
  <2>. DEFINE x == h.strayed \/ ~Detached
  <2>1. PICK o \in {h.opened, NewTab} : h' = Strayed([h EXCEPT !.quiet = FALSE, !.opened = o])
    <3>1. UserSwitches => h' = Strayed([h EXCEPT !.quiet = FALSE])
      BY DEF UserSwitches
    <3>2. [h EXCEPT !.quiet = FALSE] = [h EXCEPT !.quiet = FALSE, !.opened = h.opened]
      BY DEF ZType, History
    <3>. QED
      BY <1>1, <3>1, <3>2 DEF UserOpens
  <2>2. o \in Nat /\ x \in BOOLEAN
    BY DEF ZType, History, NewTab
  <2>3. h' = [h EXCEPT !.quiet = FALSE, !.opened = o, !.strayed = x]
    BY <2>1, <2>2 DEF Strayed, ZType, History
  <2>. HIDE DEF x
  <2>4. h' \in History /\ ~h'.quiet /\ h'.opened = o /\ h'.strayed = x
    BY <2>2, <2>3 DEF ZType, History
  <2>5. CASE UserSwitches
    <3>1. h' = Strayed([h EXCEPT !.quiet = FALSE])
      BY <2>5 DEF UserSwitches
    <3>2. h'.opened = h.opened
      BY <3>1 DEF Strayed, ZType, History
    <3>. QED
      BY <2>4, <2>5, <3>2 DEF UserSwitches, plugin, adapter, ZType, History, x
  <2>6. CASE UserOpens
    <3>1. h' = Strayed([h EXCEPT !.quiet = FALSE, !.opened = NewTab])
      BY <2>6 DEF UserOpens
    <3>2. h'.opened = NewTab
      BY <3>1 DEF Strayed, ZType, History
    <3>. QED
      BY <2>2, <2>4, <2>6, <3>2 DEF UserOpens, plugin, adapter, ZType, x
  <2>. QED
    BY <1>1, <2>5, <2>6
<1>2. CASE OthersChange \/ Refused
  <2>1. h' = [h EXCEPT !.quiet = FALSE]
    BY <1>2 DEF OthersChange, Refused, Disturb
  <2>2. h' \in History /\ ~h'.quiet /\ h'.opened = h.opened /\ h'.strayed = h.strayed
    BY <2>1 DEF ZType, History
  <2>3. CASE OthersChange
    BY <2>2, <2>3 DEF OthersChange, plugin, adapter, ZType, History
  <2>4. CASE Refused
    <3>. DEFINE m == Head(pipe)
                v == [index |-> SourceIndex(m), base |-> Baseline(m), left |-> MaxAttempts, seen |-> FALSE]
    <3>1. IsWatch(v)
      BY ZellijAssumption DEF IsWatch
    <3>2. pending' = {v} \/ pending' = pending
      BY <2>4 DEF Refused, StartsWatch, Watch
    <3>3. (\A w \in pending' : IsWatch(w)) /\ \A w, u \in pending' : u = w
      <4>. HIDE DEF v
      <4>. QED
        BY <3>1, <3>2 DEF ZType
    <3>. QED
      BY <2>2, <2>4, <3>3 DEF Refused, server, adapter, ZType, History
  <2>. QED
    BY <1>2, <2>3, <2>4
<1>. QED
  BY <1>1, <1>2

\* Hearing of a tab changes nothing but what the plugin knows.
LEMMA TabUpdateEffect ==
  ASSUME TabUpdate
  PROVE  UNCHANGED <<tabs, home, active, attached, coming, clients, pending, pipe, pc, req, tears, h>>
BY DEF TabUpdate, server, adapter

\* The types are kept.
LEMMA ZTypeStep == ASSUME ZType, Next PROVE ZType'
<1>1. CASE ReadPane
  BY <1>1, ReadPaneEffect DEF ZType, Entries, IsWatch
<1>9. CASE Begin
  BY <1>9, BeginEffect DEF ZType, Entries, IsWatch
<1>2. CASE AdapterStep
  <2>1. pipe' \in Seq(Entries(pipe')) /\ \A m \in Entries(pipe') : m.pane \in Pane \cup {NoPane}
    <3>1. CASE UNCHANGED pipe
      BY <3>1 DEF ZType
    <3>2. ASSUME NEW m, pipe' = Append(pipe, m), m.pane = req.pane
          PROVE  pipe' \in Seq(Entries(pipe')) /\ \A n \in Entries(pipe') : n.pane \in Pane \cup {NoPane}
      <4>1. pipe' \in Seq(Entries(pipe')) /\ Entries(pipe') \subseteq Entries(pipe) \cup {m}
        BY <3>2, QueueKept DEF ZType
      <4>. QED
        BY <3>2, <4>1 DEF ZType
    <3>. QED
      BY <1>2, <3>1, <3>2, AdapterEffect
  <2>. QED
    BY <1>2, <2>1, AdapterEffect DEF ZType, Entries, IsWatch
<1>3. CASE SpawnTerminal
  BY <1>3, SpawnEffect DEF ZType, Entries, IsWatch, IsReq
<1>4. CASE Break
  <2>1. pipe' \in Seq(Entries(pipe')) /\ \A m \in Entries(pipe') : m.pane \in Pane \cup {NoPane}
    <3>1. pipe # <<>> /\ pipe' = Tail(pipe)
      BY <1>4, BreakEffect
    <3>2. pipe' \in Seq(Entries(pipe')) /\ Entries(pipe') \subseteq Entries(pipe)
      BY <3>1, QueueKept DEF ZType
    <3>. QED
      BY <3>2 DEF ZType
  <2>2. home' \in [Pane -> 0..h'.opened] /\ h' \in History
    BY <1>4, BreakEffect, BreakAlone DEF ZType
  <2>3. (\A w \in pending' : IsWatch(w)) /\ \A w, v \in pending' : v = w
    BY <1>4, BreakEffect DEF ZType
  <2>4. UNCHANGED <<attached, coming, clients, pc, req, tears>>
    BY <1>4, BreakEffect
  <2>. QED
    BY <2>1, <2>2, <2>3, <2>4 DEF ZType, Entries, IsWatch, IsReq
<1>5. CASE ListClients \/ Timer
  <2>1. h' \in History /\ h'.opened = h.opened
    BY <1>5, EventsEffect DEF ZType, SameButLooks
  <2>2. (\A w \in pending' : IsWatch(w)) /\ \A w, v \in pending' : v = w
    BY <1>5, EventsEffect DEF LookedAt, ZType
  <2>3. UNCHANGED <<home, attached, coming, pipe, pc, req, tears>> /\ clients' \in {clients, attached}
    BY <1>5, EventsEffect
  <2>. QED
    BY <2>1, <2>2, <2>3 DEF ZType, Entries, IsWatch, IsReq
<1>6. CASE TabUpdate
  BY <1>6, TabUpdateEffect DEF ZType, Entries, IsWatch, IsReq
<1>7. CASE Attach
  <2>1. coming' \in Nat /\ attached' \in Nat /\ h' \in History /\ h'.opened = h.opened
    BY <1>7, AttachEffect DEF ZType
  <2>2. UNCHANGED <<home, clients, pending, pipe, pc, req, tears>>
    BY <1>7, AttachEffect
  <2>. QED
    BY <2>1, <2>2 DEF ZType, Entries, IsWatch, IsReq
<1>8. CASE UserSwitches \/ UserOpens \/ OthersChange \/ Refused
  <2>1. pipe' \in Seq(Entries(pipe')) /\ \A m \in Entries(pipe') : m.pane \in Pane \cup {NoPane}
    <3>1. CASE UNCHANGED pipe
      BY <3>1 DEF ZType
    <3>2. CASE pipe # <<>> /\ pipe' = Tail(pipe)
      <4>1. pipe' \in Seq(Entries(pipe')) /\ Entries(pipe') \subseteq Entries(pipe)
        BY <3>2, QueueKept DEF ZType
      <4>. QED
        BY <4>1 DEF ZType
    <3>. QED
      BY <1>8, <3>1, <3>2, OthersEffect
  <2>2. home' \in [Pane -> 0..h'.opened] /\ h' \in History
    BY <1>8, OthersEffect, BreakAlone DEF ZType
  <2>. QED
    BY <1>8, <2>1, <2>2, OthersEffect DEF ZType, Entries, IsWatch, IsReq
<1>. QED
  BY <1>1, <1>2, <1>3, <1>4, <1>5, <1>6, <1>7, <1>8, <1>9 DEF Next, MoveOut, Events, AdapterStep

\* Before the first break nothing changes but the adapter.
LEMMA UntornStep == ASSUME ZType, Untorn, Next PROVE Untorn'
<1>1. CASE ReadPane
  BY <1>1, ReadPaneEffect DEF Untorn, Moving, PanesOf
<1>9. CASE Begin
  BY <1>9, BeginEffect DEF Untorn, Several, PanesOf
<1>2. CASE AdapterStep
  <2>1. UNCHANGED <<home, active, pending, coming, h>>
    BY <1>2, AdapterEffect
  <2>2. (Moving' => Moving) /\ (pc' = "spawn" => Moving /\ ~(Cardinality(PanesOf(active)) > 1))
    BY <1>2, AdapterEffect, PanesCounted DEF Moving
  <2>. QED
    BY <2>1, <2>2 DEF Untorn, PanesOf
<1>3. CASE SpawnTerminal
  BY <1>3, SpawnEffect DEF Untorn
<1>4. CASE Break
  <2>1. CASE UNCHANGED <<home, active, pending, h>>
    BY <1>4, <2>1, BreakEffect DEF Untorn, Moving, PanesOf
  <2>2. CASE h'.torn = NewTab
    BY <2>2 DEF Untorn, NewTab, ZType, History
  <2>. QED
    BY <1>4, <2>1, <2>2, BreakEffect
<1>5. CASE ListClients \/ Timer
  BY <1>5, EventsEffect DEF Untorn, Moving, PanesOf, SameButLooks
<1>6. CASE TabUpdate
  BY <1>6, TabUpdateEffect DEF Untorn, Moving, PanesOf
<1>7. CASE Attach
  <2>1. coming # 0 /\ h'.quiet = h.quiet /\ h'.torn = h.torn
    BY <1>7, AttachEffect
  <2>. QED
    BY <2>1 DEF Untorn
<1>8. CASE UserSwitches \/ UserOpens \/ OthersChange \/ Refused
  BY <1>8, OthersEffect DEF Untorn
<1>. QED
  BY <1>1, <1>2, <1>3, <1>4, <1>5, <1>6, <1>7, <1>8, <1>9 DEF Next, MoveOut, Events, AdapterStep

\* The watch is kept: a look that ends it costs the last attempt or follows the join.
LEMMA WatchedStep == ASSUME ZType, Watched, Awaited, Next PROVE Watched'
<1>. h \in History /\ attached \in Nat /\ clients \in Nat /\ MaxAttempts \in Nat \ {0}
  BY ZellijAssumption DEF ZType
<1>1. CASE UNCHANGED <<active, attached, pending, h>>
  BY <1>1 DEF Watched
<1>2. CASE Break
  <2>1. CASE UNCHANGED <<active, pending, h>>
    BY <1>1, <1>2, <2>1, BreakEffect
  <2>2. CASE ~h'.quiet
    BY <2>2 DEF Watched
  <2>3. CASE /\ active' = h'.torn /\ h'.looks = 0 /\ ~h'.joined /\ UNCHANGED attached
             /\ \A w \in pending' : w.base = attached /\ ~w.seen /\ w.left = MaxAttempts
    BY <2>3 DEF Watched
  <2>. QED
    BY <1>2, <2>1, <2>2, <2>3, BreakEffect
<1>3. CASE ListClients \/ Timer
  <2>1. UNCHANGED attached
    BY <1>3, EventsEffect
  <2>2. CASE pending' = {}
    BY <2>2 DEF Watched
  <2>3. ASSUME NEW w \in pending, NEW v, pending' = {v}, UNCHANGED active, SameButLooks, LookedOn, h' \in History,
               ~v.seen, ~w.seen, v.base = w.base, w.left > 1, v.left = w.left - 1
        PROVE  Watched'
    <3>1. w.left \in Nat
      BY DEF ZType, IsWatch
    <3>2. h.quiet => /\ active = h.torn /\ (w.seen => h.joined) /\ (~h.joined => attached = w.base)
                     /\ (~w.seen => w.left + h.looks = MaxAttempts)
      BY DEF Watched
    <3>3. h.quiet /\ ~w.seen => v.left + h'.looks = MaxAttempts
      BY <2>3, <3>1, <3>2 DEF LookedOn, History
    <3>. QED
      BY <2>1, <2>3, <3>2, <3>3 DEF Watched, SameButLooks
  <2>4. ASSUME NEW w \in pending, NEW v, pending' = {v}, UNCHANGED active, SameButLooks,
               NEW n \in {clients, attached}, n >= w.base + 1, v.seen, v.base = w.base
        PROVE  Watched'
    <3>1. h.quiet => active = h.torn /\ (~h.joined => attached = w.base) /\ clients <= attached
      BY DEF Watched, Awaited
    <3>2. h.quiet => h.joined
      BY <2>4, <3>1
    <3>. QED
      BY <2>4, <3>1, <3>2 DEF Watched, SameButLooks
  <2>5. CASE UNCHANGED <<active, pending, h>>
    BY <1>1, <2>1, <2>5
  <2>6. ASSUME NEW w \in pending, w.seen, pending' = {w}, UNCHANGED active, SameButLooks
        PROVE  Watched'
    BY <2>1, <2>6 DEF Watched, SameButLooks
  <2>. QED
    <3>1. CASE UNCHANGED <<active, pending, h>>
      BY <2>5, <3>1
    <3>2. ASSUME h' \in History, SameButLooks, LookedOn, NEW w \in pending, NEW n \in {clients, attached},
                 \/ pending' = {}
                 \/ /\ n >= w.base + 1 /\ UNCHANGED active
                    /\ \E v : pending' = {v} /\ v.seen /\ v.base = w.base
                 \/ w.seen /\ pending' = {w} /\ UNCHANGED active
                 \/ /\ ~w.seen /\ w.left > 1 /\ UNCHANGED active
                    /\ \E v : pending' = {v} /\ ~v.seen /\ v.base = w.base /\ v.left = w.left - 1
          PROVE  Watched'
      BY <2>2, <2>3, <2>4, <2>6, <3>2
    <3>. QED
      BY <1>3, <3>1, <3>2, EventsEffect DEF LookedAt
<1>4. CASE Attach
  BY <1>4, AttachEffect DEF Watched
<1>5. CASE UserSwitches \/ UserOpens \/ OthersChange \/ Refused
  BY <1>5, OthersEffect DEF Watched
<1>7. CASE Begin
  BY <1>7, BeginEffect DEF Watched
<1>6. CASE ReadPane \/ AdapterStep \/ SpawnTerminal \/ TabUpdate
  BY <1>1, <1>6, ReadPaneEffect, AdapterEffect, SpawnEffect, TabUpdateEffect
<1>. QED
  BY <1>2, <1>3, <1>4, <1>5, <1>6, <1>7 DEF Next, MoveOut, Events, AdapterStep

\* The torn-out tab stays shown: what would show another needs the join or the last look.
LEMMA AwaitedStep == ASSUME ZType, Untorn, Watched, Awaited, Next PROVE Awaited'
<1>. h \in History /\ coming \in Nat /\ attached \in Nat /\ clients \in Nat /\ MaxAttempts \in Nat \ {0}
  BY ZellijAssumption DEF ZType
<1>1. CASE ReadPane
  BY <1>1, ReadPaneEffect DEF Awaited, Early, Moving, PanesOf
<1>9. CASE Begin
  <2>1. /\ pc = "idle" /\ pc' = "pane" /\ UNCHANGED <<home, active, attached, coming, clients>>
        /\ h'.torn = h.torn /\ h'.looks = h.looks /\ h'.joined = h.joined
        /\ h'.quiet => h.quiet /\ Cardinality(PanesOf(active)) > 1
    BY <1>9, BeginEffect DEF Several
  <2>2. h'.quiet /\ h.torn # 0 => active # h.torn
    BY <2>1, PanesCounted DEF Awaited
  <2>. QED
    BY <2>1, <2>2 DEF Awaited, Early, Moving, PanesOf
<1>2. CASE AdapterStep
  <2>1. UNCHANGED <<home, active, attached, coming, clients, h>>
    BY <1>2, AdapterEffect
  <2>2. pc # "idle" /\ (Moving' => Moving)
    BY <1>2, AdapterEffect DEF Moving
  <2>3. pc' = "spawn" => Moving /\ ~(Cardinality(PanesOf(active)) > 1)
    BY <1>2, AdapterEffect, PanesCounted DEF Moving
  <2>. QED
    BY <2>1, <2>2, <2>3 DEF Awaited, Early, PanesOf
<1>3. CASE SpawnTerminal
  <2>1. pc = "spawn" /\ pc' = "idle" /\ coming' \in {coming, coming + 1}
        /\ UNCHANGED <<home, active, attached, clients, h>>
    BY <1>3, SpawnEffect
  <2>. QED
    BY <2>1 DEF Awaited, Early, Moving, PanesOf
<1>4. CASE Break
  <2>1. CASE UNCHANGED <<home, active, h>>
    BY <1>4, <2>1, BreakEffect DEF Awaited, Early, Moving, PanesOf
  <2>2. ASSUME NEW p \in Pane, home' = [home EXCEPT ![p] = NewTab], active' = NewTab, h'.torn = NewTab,
               UNCHANGED <<attached, coming, clients, pc>>,
               h'.quiet => h.quiet /\ coming = 0 /\ ~h'.joined
        PROVE  Awaited'
    <3>1. PanesOf(h.torn)' = {p}
      BY <2>2, BreakAlone DEF PanesOf
    <3>. QED
      BY <2>2, <3>1 DEF Awaited, Early
  <2>. QED
    BY <1>4, <2>1, <2>2, BreakEffect
<1>5. CASE ListClients \/ Timer
  <2>1. UNCHANGED <<home, attached, coming, pc>> /\ clients' \in {clients, attached}
    BY <1>5, EventsEffect
  <2>2. CASE UNCHANGED <<active, h>>
    BY <2>1, <2>2 DEF Awaited, Early, Moving, PanesOf
  <2>3. CASE UNCHANGED active /\ SameButLooks /\ LookedOn
    <3>1. Early' => Early
      BY <2>3 DEF Early, SameButLooks, LookedOn, History
    <3>. QED
      BY <2>1, <2>3, <3>1 DEF Awaited, Moving, PanesOf, SameButLooks
  <2>4. ASSUME NEW w \in pending, w.seen \/ w.left <= 1, SameButLooks, LookedOn
        PROVE  Awaited'
    <3>1. w.left \in Nat
      BY DEF ZType, IsWatch
    <3>2. h.quiet => active = h.torn /\ (h.joined \/ h.looks + 1 >= MaxAttempts)
      BY <2>4, <3>1 DEF Watched, History
    <3>3. Early' => Early /\ h.joined /\ ~Moving
      <4>1. Early' => Early /\ h.looks + 1 < MaxAttempts
        BY <2>4 DEF Early, SameButLooks, LookedOn, History
      <4>2. Early => active = h.torn /\ \E p : PanesOf(active) = {p}
        BY <3>2 DEF Awaited, Early
      <4>3. Early' => h.joined
        BY <3>2, <4>1 DEF Early, History
      <4>4. Early => ~(Cardinality(PanesOf(active)) > 1)
        BY <4>2, PanesCounted
      <4>. QED
        BY <4>1, <4>3, <4>4 DEF Awaited
    <3>. QED
      BY <2>1, <2>4, <3>3 DEF Awaited, Moving, PanesOf, SameButLooks
  <2>. QED
    BY <1>5, <2>2, <2>3, <2>4, EventsEffect DEF LookedAt
<1>6. CASE TabUpdate
  BY <1>6, TabUpdateEffect DEF Awaited, Early, Moving, PanesOf
<1>7. CASE Attach
  <2>1. coming > 0 /\ coming' = coming - 1 /\ attached' = attached + 1 /\ h'.joined
        /\ h'.torn = h.torn /\ h'.looks = h.looks /\ h'.quiet = h.quiet
        /\ UNCHANGED <<home, active, clients, pc>>
    BY <1>7, AttachEffect
  <2>2. Early' => Early /\ coming = 1 /\ pc = "idle"
    BY <2>1 DEF Awaited, Early
  <2>. QED
    BY <2>1, <2>2 DEF Awaited, Moving, PanesOf
<1>8. CASE UserSwitches \/ UserOpens \/ OthersChange \/ Refused
  BY <1>8, OthersEffect DEF Awaited, Early
<1>. QED
  BY <1>1, <1>2, <1>3, <1>4, <1>5, <1>6, <1>7, <1>8, <1>9 DEF Next, MoveOut, Events, AdapterStep

\* What shows another tab before the pane is alone makes the tear-out stray.
LEMMA LeftStep == ASSUME ZType, Unread, Left, Next PROVE Left' /\ Unread'
<1>0. Unread'
  <2>1. CASE Begin \/ ReadPane
    BY <2>1, BeginEffect, ReadPaneEffect DEF Unread
  <2>2. CASE ~(Begin \/ ReadPane)
    BY <2>2, AdapterEffect, SpawnEffect, BreakEffect, EventsEffect, TabUpdateEffect, AttachEffect, OthersEffect
    DEF Next, MoveOut, Events, AdapterStep, Unread
  <2>. QED
    BY <2>1, <2>2
<1>. SUFFICES Left'
  BY <1>0
<1>1. CASE Begin
  <2>1. pc' = "pane" /\ UNCHANGED <<home, active>> /\ h'.strayed = ~Several
    BY <1>1, BeginEffect
  <2>. QED
    BY <2>1 DEF Left, Several, PanesOf
<1>2. CASE ReadPane
  <2>1. pc = "pane" /\ pc' = "tab" /\ UNCHANGED <<home, active, h>>
    BY <1>2, ReadPaneEffect
  <2>2. pc = "pane" => req.pane = NoPane
    BY DEF Unread
  <2>. QED
    BY <2>1, <2>2 DEF Left, Moving, Detached, PanesOf
<1>3. CASE AdapterStep
  <2>1. req'.pane = req.pane /\ UNCHANGED <<home, active, h>>
    BY <1>3, AdapterEffect
  <2>2. Detached' = Detached /\ PanesOf(active)' = PanesOf(active)
    BY <2>1 DEF Detached, PanesOf
  <2>3. (Moving' => Moving) /\ (pc' = "spawn" => Moving /\ ~(Cardinality(PanesOf(active)) > 1))
    BY <1>3, AdapterEffect, PanesCounted DEF Moving
  <2>. QED
    BY <2>1, <2>2, <2>3 DEF Left
<1>4. CASE SpawnTerminal
  BY <1>4, SpawnEffect DEF Left, Moving
<1>5. CASE Break
  <2>1. UNCHANGED <<pc, req>>
    BY <1>5, BreakEffect
  <2>2. CASE UNCHANGED <<home, active, h>>
    BY <2>1, <2>2 DEF Left, Moving, Detached, PanesOf
  <2>3. ASSUME NEW p \in Pane, home' = [home EXCEPT ![p] = NewTab],
               h'.strayed = (h.strayed \/ (p # req.pane /\ ~Detached))
        PROVE  Left'
    <3>1. Pane \cap {NoPane} = {}
      BY ZellijAssumption
    <3>. QED
      BY <2>1, <2>3, <3>1, StaysDetached DEF Left
  <2>. QED
    BY <1>5, <2>2, <2>3, BreakEffect
<1>6. CASE ListClients \/ Timer
  <2>1. UNCHANGED <<home, pc, req>>
    BY <1>6, EventsEffect
  <2>2. UNCHANGED <<active, h>> \/ Straying
    BY <1>6, EventsEffect
  <2>. QED
    BY <2>1, <2>2 DEF Left, Straying, Moving, Detached, PanesOf
<1>7. CASE TabUpdate
  BY <1>7, TabUpdateEffect DEF Left, Moving, Detached, PanesOf
<1>8. CASE Attach
  BY <1>8, AttachEffect DEF Left, Moving, Detached, PanesOf
<1>9. CASE UserSwitches \/ UserOpens \/ OthersChange \/ Refused
  <2>1. UNCHANGED <<pc, req>> /\ (h.strayed => h'.strayed) /\ (UNCHANGED active \/ h'.strayed \/ Detached)
    BY <1>9, OthersEffect
  <2>2. CASE UNCHANGED home
    BY <2>1, <2>2 DEF Left, Moving, Detached, PanesOf
  <2>3. ASSUME NEW p \in Pane, home' = [home EXCEPT ![p] = NewTab], h'.strayed \/ Detached
        PROVE  Left'
    BY <2>1, <2>3, StaysDetached DEF Left
  <2>4. ASSUME NEW p \in Pane, home' = [home EXCEPT ![p] = NewTab] PROVE h'.strayed \/ Detached
    <3>1. UNCHANGED home \/ UserOpens
      BY <1>9 DEF UserSwitches, OthersChange, Refused, server
    <3>2. UserOpens => h' = Strayed([h EXCEPT !.quiet = FALSE, !.opened = NewTab])
      BY DEF UserOpens
    <3>3. UserOpens => h'.strayed \/ Detached
      BY <3>2 DEF Strayed, ZType, History
    <3>4. ~UNCHANGED home
      BY <2>4, BreakAlone DEF ZType, History, NewTab
    <3>. QED
      BY <3>1, <3>3, <3>4
  <2>. QED
    BY <1>9, <2>2, <2>3, <2>4, OthersEffect
<1>. QED
  BY <1>1, <1>2, <1>3, <1>4, <1>5, <1>6, <1>7, <1>8, <1>9 DEF Next, MoveOut, Events, AdapterStep

\* Any tabs with any panes satisfy it,
LEMMA ZellijInitInv == ASSUME Init PROVE ZInv
<1>1. ZType
  <2>. DEFINE n == Cardinality(TabsAt(home))
  <2>1. home \in [Pane -> Nat] /\ TabsAt(home) = 1..n /\ TabsAt(home) # {}
    BY HomesAssumption DEF Init
  <2>2. IsFiniteSet(TabsAt(home))
    <3>. DEFINE all == {home[p] : p \in Pane}
    <3>0. home \in Surjection(Pane, all)
      BY <2>1 DEF Surjection
    <3>1. IsFiniteSet(all)
      BY <3>0, ZellijAssumption, FS_Surjection
    <3>. QED
      BY <3>1, FS_Subset DEF TabsAt
  <2>3. n \in Nat
    BY <2>2, FS_CardinalityType
  <2>4. Len(tabs) = n
    BY <2>3 DEF Init
  <2>5. home \in [Pane -> 0..n]
    <3>1. \A p \in Pane : home[p] = 0 \/ home[p] \in TabsAt(home)
      BY DEF TabsAt
    <3>. HIDE DEF n
    <3>. QED
      BY <2>1, <2>3, <3>1
  <2>. HIDE DEF n
  <2>6. h.opened = n /\ h \in History
    BY <2>3, <2>4 DEF Init, History
  <2>7. pipe \in Seq(Entries(pipe)) /\ \A m \in Entries(pipe) : m.pane \in Pane \cup {NoPane}
    BY DEF Init, Entries
  <2>8. IsReq(req) /\ req.pane \in Pane \cup {NoPane}
    BY DEF Init, NoReq, IsReq
  <2>. QED
    BY <2>5, <2>6, <2>7, <2>8 DEF Init, ZType
<1>2. Untorn /\ Watched /\ Awaited
  BY DEF Init, Untorn, Moving, Watched, Awaited, Early
<1>3. Left /\ Unread
  BY DEF Init, Left, Unread, Moving
<1>. QED
  BY <1>1, <1>2, <1>3 DEF ZInv

\* every step keeps it,
LEMMA ZellijStepInv == ASSUME ZInv, [Next]_vars PROVE ZInv'
<1>1. CASE Next
  BY <1>1, ZTypeStep, UntornStep, WatchedStep, AwaitedStep, LeftStep DEF ZInv
<1>2. CASE UNCHANGED vars
  <2>1. ZType'
    BY <1>2 DEF vars, ZInv, ZType, Entries, IsWatch, IsReq
  <2>2. Untorn' /\ Watched'
    BY <1>2 DEF vars, ZInv, Untorn, Moving, PanesOf, Watched
  <2>3. Awaited'
    BY <1>2 DEF vars, ZInv, Awaited, Early, Moving, PanesOf
  <2>4. Left' /\ Unread'
    BY <1>2 DEF vars, ZInv, Left, Unread, Moving, Detached, PanesOf
  <2>. QED
    BY <2>1, <2>2, <2>3, <2>4 DEF ZInv
<1>. QED
  BY <1>1, <1>2

\* so it always holds.
LEMMA ZellijInvariant == Spec => []ZInv
BY ZellijInitInv, ZellijStepInv, PTL DEF Spec

\* A terminal is only spawned once the named pane is alone in its tab: in any number of
\* tabs and tear-outs, however late a break is handled or refused and whatever fails, the
\* checks of move_out take no failed count for a detachment, as long as the tear-out began
\* among several panes and no other tab was shown before the pane was alone.
THEOREM SpawnsForDetachedPane == Spec => []SpawnMeansDetached
<1>1. ZInv => SpawnMeansDetached
  BY DEF ZInv, Left, Detached, SpawnMeansDetached
<1>. QED
  BY <1>1, ZellijInvariant, PTL

\* A terminal that comes early finds the torn-out tab shown.
LEMMA AttachShows ==
  ASSUME ZInv, [Next]_vars, coming' < coming, h.quiet, h.looks < MaxAttempts
  PROVE  active = h.torn
<1>. coming \in Nat
  BY DEF ZInv, ZType
<1>1. coming > 0
  <2>1. UNCHANGED coming \/ SpawnTerminal \/ Attach
    BY BeginEffect, ReadPaneEffect, AdapterEffect, BreakEffect, EventsEffect, TabUpdateEffect, OthersEffect
    DEF ZInv, vars, Next, MoveOut, Events, AdapterStep
  <2>2. ~UNCHANGED coming
    OBVIOUS
  <2>3. ~SpawnTerminal
    BY SpawnEffect
  <2>4. ZType
    BY DEF ZInv
  <2>. QED
    BY <2>1, <2>2, <2>3, <2>4, AttachEffect
<1>2. h.torn # 0
  BY <1>1 DEF ZInv, Untorn
<1>3. Early /\ ~h.joined
  BY <1>1, <1>2 DEF ZInv, Awaited, Early
<1>. QED
  BY <1>3 DEF ZInv, Awaited

\* A terminal that comes before the plugin's last look shows the torn-out pane's tab, in
\* every tear-out of a session that is left alone: the plugin does not restore the
\* source tab before (maybe_restore_source_tab).
THEOREM TornOutPaneIsShown == Spec => NewTerminalShowsPane
<1>1. ZInv /\ [Next]_vars
        => [coming' < coming /\ h.quiet /\ h.looks < MaxAttempts => active = h.torn]_vars
  BY AttachShows
<1>. QED
  BY <1>1, ZellijInvariant, PTL DEF Spec, NewTerminalShowsPane
====
