---- MODULE VscodeFocus_proofs ----
(***************************************************************************)
(* What is believed of a VS Code window includes what is active, for any   *)
(* layouts, calls, acts of the user and deaths, as long as VS Code keeps   *)
(* empty groups; and one direction, pressed again and again, reaches the   *)
(* edge.                                                                   *)
(*                                                                         *)
(* The commands VS Code has been sent and not carried out make a belief    *)
(* say nothing of the present.  The invariant therefore follows them: from *)
(* a set with the active group each command leads into the next set, and   *)
(* the last is what is believed.  That streaks end needs geometry: a       *)
(* neighbour in a direction lies further on in it.                         *)
(***************************************************************************)
EXTENDS VscodeFocus, SequenceTheorems, FiniteSetTheorems, WellFoundedInduction, TLAPS

-----------------------------------------------------------------------------
(* Where the active group may go *)

\* What a command makes of the active group, as long as the layout stays.
Taken(l, c, g, h) ==
  CASE c.cmd = "focus" -> h = IF neighbor[l][g][c.arg] = 0 THEN g ELSE neighbor[l][g][c.arg]
    [] c.cmd = "move" -> neighbor[l][g][c.arg] = 0 \/ h = neighbor[l][g][c.arg]
    [] OTHER -> h = g

\* Once the commands are carried out, the group is one of B: each of them
\* leads from a set of groups into the next.
IsPath(l, a, qu, B, path) ==
  /\ path \in [1..Len(qu) + 1 -> SUBSET All(l)] /\ a \in path[1] /\ path[Len(qu) + 1] \subseteq B
  /\ \A i \in 1..Len(qu) : \A g \in path[i], h \in All(l) : Taken(l, qu[i], g, h) => h \in path[i + 1]
Leads(l, a, qu, B) == \E path \in [1..Len(qu) + 1 -> SUBSET All(l)] : IsPath(l, a, qu, B, path)

\* The same, and no command finds the layout as it is not meant for it.
Safe(l, c, G) == c.cmd # "tearOut" /\ (c.cmd = "move" => \A g \in G : neighbor[l][g][c.arg] # 0)
Surely(l, a, qu, B) ==
  \E path \in [1..Len(qu) + 1 -> SUBSET All(l)] :
    IsPath(l, a, qu, B, path) /\ \A i \in 1..Len(qu) : Safe(l, qu[i], path[i])

-----------------------------------------------------------------------------
(* The invariant *)

Groups(l) == {G \in SUBSET All(l) : G # {}}
Command == {c \in [cmd : {"surface", "focus", "move", "tearOut"}, arg : Direction \cup Surface] :
              c.cmd \in {"focus", "move"} => c.arg \in Direction}
IsState(st) ==
  /\ st \in States /\ st.groups \in Groups(st.sig)
  /\ st.pending = <<>> \/ (st.pending = <<st.pending[1]>> /\ st.pending[1].groups \in Groups(st.sig))

\* A command and the belief after it, planned from the belief st.
PlannedFrom(st, plan) ==
  /\ plan.from \in Groups(st.sig) /\ plan.next.surface \in Surface
  /\ \/ plan.cmd = "surface" /\ plan.arg \in Surface /\ plan.next.groups = plan.from
     \/ plan.cmd = "focus" /\ plan.arg \in Direction /\ plan.next.groups = After(st.sig, plan.from, plan.arg)
  /\ plan.cmd = "focus" /\ st.pending = <<>> =>
       plan.from = st.groups /\ AnyNeighbor(st.sig, plan.from, plan.arg)

Knowing == {"canFocus", "focusLook", "focus", "decide", "moveLook", "move", "moveSend", "outLook", "out"}
Moving == {"moveLook", "move", "moveSend", "settle", "save", "outLook", "out", "outSettle", "outSave"}
Sent == {"focusStore", "settle", "save", "outSettle", "outSave"}

CallAt(step, c) ==
  /\ step \in Steps
  /\ c = [dir |-> c.dir, snap |-> c.snap, state |-> c.state, asked |-> c.asked, plan |-> c.plan]
  /\ step \in Knowing => c.dir \in Direction /\ c.snap \in Layouts
  /\ step \in {"save", "outSave"} => c.snap \in Layouts
  /\ step \in {"focusSend", "focusStore"} =>
       IsState(c.state) /\ c.plan = <<c.plan[1]>> /\ PlannedFrom(c.state, c.plan[1])
  /\ step = "moveSend" => IsState(c.state) /\ c.snap = c.state.sig
  /\ step \in {"settle", "save"} => c.plan = <<>> \/ c.plan = <<c.plan[1]>>

VInv ==
  /\ layout \in Layouts /\ active \in All(layout) /\ queue \in Seq(Command)
  /\ file = NoState \/ IsState(file)
  /\ pc = [p \in Proc |-> pc[p]] /\ r = [p \in Proc |-> r[p]]
  /\ \A p \in Proc : CallAt(pc[p], r[p])

Believed(st, l) == Latest(Normal(st, l)).groups

\* What a call has read, sent or is about to write leads where the active group goes.
FollowsAt(step, c, l, a, qu) ==
  /\ step = "focusSend" /\ c.state.sig = l => Leads(l, a, qu, c.plan[1].from)
  /\ step = "focusStore" /\ c.state.sig = l => Leads(l, a, qu, c.plan[1].next.groups)
  /\ step = "moveSend" /\ c.state.sig = l => Leads(l, a, qu, Latest(c.state).groups)
  /\ step = "settle" /\ c.plan # <<>> => Surely(l, a, qu, c.plan[1].next.groups)
  /\ step = "save" /\ c.plan # <<>> /\ c.snap = l => Leads(l, a, qu, c.plan[1].next.groups)

\* As long as the belief can be trusted, one call changes it at a time, and
\* what is believed is where the commands under way lead.
TrustInv ==
  trust =>
    /\ \A p, q \in Proc : pc[p] \in Changing /\ pc[q] \in Changing => p = q
    /\ ~older => /\ (\A p \in Proc : pc[p] \notin Sent) => Leads(layout, active, queue, Believed(file, layout))
                 /\ \A p \in Proc : FollowsAt(pc[p], r[p], layout, active, queue)

\* The groups before one in a direction.
Pos(l, g, dir) == CASE dir = "west" -> -Rect(l, g).x [] dir = "east" -> Rect(l, g).x
                    [] dir = "north" -> -Rect(l, g).y [] OTHER -> Rect(l, g).y
Before(l, g, dir) == {h \in All(l) : Pos(l, h, dir) < Pos(l, g, dir)}

\* After n moves a group is at the edge, or has n groups behind it.
Advanced(l, G, dir, n) == \A g \in G : neighbor[l][g][dir] = 0 \/ n <= Cardinality(Before(l, g, dir))

StreakInv ==
  /\ streak = [dir |-> streak.dir, n |-> streak.n] /\ streak.n \in Nat
  /\ streak.n > 0 =>
       /\ streak.dir \in Direction /\ streak.n < Cardinality(All(layout))
       /\ file # NoState /\ file.sig = layout /\ file.pending # <<>>
       /\ Advanced(layout, file.pending[1].groups, streak.dir, streak.n)
       /\ \A p \in Proc : pc[p] \notin Moving
       /\ \A p \in Proc : pc[p] \in {"focusSend", "focusStore"} /\ r[p].state.sig = layout /\ r[p].state.pending = <<>> =>
            r[p].state.groups = file.pending[1].groups

-----------------------------------------------------------------------------
(* Least elements, of sets of naturals and by a measure. *)

LEMMA LeastNatural ==
  ASSUME NEW S \in SUBSET Nat, S # {}
  PROVE  \E x \in S : \A y \in S : x <= y
<1> DEFINE R == OpToRel(<, Nat)
<1>1. IsWellFoundedOn(R, Nat)
  BY NatLessThanWellFounded
<1>2. \A x, y \in Nat : <<x, y>> \in R <=> x < y
  BY DEF OpToRel
<1> HIDE DEF R
<1>3. PICK x \in S : \A y \in S : ~(<<y, x>> \in R)
  BY <1>1, WFMin
<1>4. ASSUME NEW y \in S PROVE x <= y
  <2>1. y \in Nat /\ x \in Nat
    OBVIOUS
  <2>2. ~(y < x)
    BY <1>2, <1>3, <2>1, Zenon
  <2> QED
    BY <2>1, <2>2
<1> QED
  BY <1>4

LEMMA LeastByMeasure ==
  ASSUME NEW S, S # {}, NEW f \in [S -> Nat]
  PROVE  \E x \in S : \A y \in S : f[x] <= f[y]
<1>1. {f[x] : x \in S} \in SUBSET Nat /\ {f[x] : x \in S} # {}
  OBVIOUS
<1>2. PICK m \in {f[x] : x \in S} : \A n \in {f[x] : x \in S} : m <= n
  BY <1>1, LeastNatural
<1>3. PICK x \in S : m = f[x]
  OBVIOUS
<1> QED
  BY <1>2, <1>3

-----------------------------------------------------------------------------
(* The groups of a layout *)

\* The sum over the columns is what it says: there is a function that adds up,
\* or else there is a first column up to which there is none.
LEMMA UptoAddsUp ==
  ASSUME NEW l \in Seq(Nat)
  PROVE  /\ Upto(l) \in [0..Len(l) -> Nat] /\ Upto(l)[0] = 0
         /\ \A c \in 1..Len(l) : Upto(l)[c] = Upto(l)[c - 1] + l[c]
<1> DEFINE Adds(f, k) == \A c \in 0..k : f[c] = IF c = 0 THEN 0 ELSE f[c - 1] + l[c]
<1>1. \E f \in [0..Len(l) -> Nat] : Adds(f, Len(l))
  <2> SUFFICES ASSUME ~\E f \in [0..Len(l) -> Nat] : Adds(f, Len(l)) PROVE FALSE
    OBVIOUS
  <2> DEFINE Bad == {k \in 0..Len(l) : ~\E f \in [0..k -> Nat] : Adds(f, k)}
  <2>1. PICK k \in Bad : \A n \in Bad : k <= n
    <3>1. Len(l) \in Bad /\ Bad \in SUBSET Nat
      OBVIOUS
    <3> HIDE DEF Bad
    <3> QED
      BY <3>1, LeastNatural
  <2>2. k \in 0..Len(l) /\ ~\E f \in [0..k -> Nat] : Adds(f, k)
    BY <2>1
  <2>3. k # 0
    <3>1. ASSUME k = 0 PROVE FALSE
      <4>1. [c \in 0..k |-> 0] \in [0..k -> Nat] /\ Adds([c \in 0..k |-> 0], k)
        BY <3>1
      <4> QED
        BY <2>2, <4>1
    <3> QED
      BY <3>1
  <2>4. PICK f \in [0..k - 1 -> Nat] : Adds(f, k - 1)
    <3>1. k - 1 \in 0..Len(l) /\ ~(k <= k - 1)
      BY <2>2, <2>3
    <3>2. k - 1 \notin Bad
      BY <2>1, <3>1
    <3> QED
      BY <3>1, <3>2
  <2> DEFINE g == [c \in 0..k |-> IF c = k THEN f[k - 1] + l[k] ELSE f[c]]
  <2>5. k \in 1..Len(l) /\ l[k] \in Nat /\ k - 1 \in 0..k - 1
    BY <2>2, <2>3
  <2>6. g \in [0..k -> Nat]
    <3>1. ASSUME NEW c \in 0..k PROVE (IF c = k THEN f[k - 1] + l[k] ELSE f[c]) \in Nat
      <4>1. f[k - 1] \in Nat
        BY <2>4, <2>5
      <4>2. c # k => c \in 0..k - 1
        BY <2>5
      <4> QED
        BY <2>4, <2>5, <4>1, <4>2
    <3> QED
      BY <3>1
  <2>7. Adds(g, k)
    <3>1. ASSUME NEW c \in 0..k PROVE g[c] = IF c = 0 THEN 0 ELSE g[c - 1] + l[c]
      <4>1. c # 0 => c - 1 \in 0..k /\ c - 1 # k /\ g[c - 1] = f[c - 1]
        BY <2>5
      <4>2. CASE c = k
        BY <2>5, <4>1, <4>2
      <4>3. CASE c # k
        <5>1. c \in 0..k - 1 /\ g[c] = f[c]
          BY <2>5, <4>3
        <5> QED
          BY <2>4, <4>1, <5>1
      <4> QED
        BY <4>2, <4>3
    <3> QED
      BY <3>1
  <2> QED
    BY <2>2, <2>6, <2>7
<1>2. PICK f \in [0..Len(l) -> Nat] : Adds(f, Len(l))
  BY <1>1
<1>3. f = [c \in 0..Len(l) |-> IF c = 0 THEN 0 ELSE f[c - 1] + l[c]]
  BY <1>2
<1>4. Upto(l) = [c \in 0..Len(l) |-> IF c = 0 THEN 0 ELSE Upto(l)[c - 1] + l[c]]
  BY <1>3, Zenon DEF Upto
<1>5. ASSUME NEW k \in 0..Len(l) PROVE Upto(l)[k] = f[k]
  <2> DEFINE Odd == {c \in 0..Len(l) : Upto(l)[c] # f[c]}
  <2>1. SUFFICES ASSUME Odd # {} PROVE FALSE
    OBVIOUS
  <2>2. PICK c \in Odd : \A d \in Odd : c <= d
    <3>1. Odd \in SUBSET Nat
      OBVIOUS
    <3> HIDE DEF Odd
    <3> QED
      BY <2>1, <3>1, LeastNatural
  <2>3. c \in 0..Len(l) /\ Upto(l)[c] # f[c]
    BY <2>2
  <2>4. Upto(l)[c] = IF c = 0 THEN 0 ELSE Upto(l)[c - 1] + l[c]
    BY <1>4, <2>3
  <2>5. f[c] = IF c = 0 THEN 0 ELSE f[c - 1] + l[c]
    BY <1>2, <2>3
  <2>6. c # 0 => c - 1 \in 0..Len(l) /\ ~(c <= c - 1)
    BY <2>3
  <2>7. c # 0 => Upto(l)[c - 1] = f[c - 1]
    BY <2>2, <2>6
  <2> QED
    BY <2>3, <2>4, <2>5, <2>7
<1>6. Upto(l) = f
  BY <1>2, <1>4, <1>5
<1> QED
  BY <1>2, <1>6

LEMMA Columns ==
  ASSUME NEW l \in Layouts
  PROVE  l \in Seq(Nat) /\ Len(l) \in 1..Size /\ \A c \in 1..Len(l) : l[c] \in 1..Size
<1> DEFINE Parts == {n \in 1..Size : Size % n = 0}
<1>1. l \in Seq(Parts) /\ Len(l) \in Parts
  BY VscodeAssumption
<1>2. Parts \subseteq 1..Size /\ Parts \subseteq Nat
  BY VscodeAssumption
<1> HIDE DEF Parts
<1>3. \A c \in 1..Len(l) : l[c] \in Parts
  BY <1>1
<1>4. l \in Seq(Nat)
  <2>1. Seq(Parts) \subseteq Seq(Nat)
    BY <1>2, SeqMonotonic
  <2> QED
    BY <1>1, <2>1
<1> QED
  BY <1>1, <1>2, <1>3, <1>4

\* A group has one column, and a layout has a group.
LEMMA ColumnFound ==
  ASSUME NEW l \in Layouts
  PROVE  /\ Upto(l)[Len(l)] \in Nat /\ \A c \in 0..Len(l) : Upto(l)[c] \in Nat
         /\ \A g \in All(l) : ColumnOf(l, g) \in 1..Len(l) /\ Upto(l)[ColumnOf(l, g) - 1] < g /\ g <= Upto(l)[ColumnOf(l, g)]
<1>1. /\ l \in Seq(Nat) /\ Len(l) \in Nat
      /\ Upto(l) \in [0..Len(l) -> Nat] /\ Upto(l)[0] = 0
  BY Columns, UptoAddsUp
<1>2. Upto(l)[Len(l)] \in Nat /\ \A c \in 0..Len(l) : Upto(l)[c] \in Nat
  BY <1>1
<1>3. ASSUME NEW g \in All(l)
      PROVE  \E c \in 1..Len(l) : Upto(l)[c - 1] < g /\ g <= Upto(l)[c]
  <2> DEFINE To == {c \in 0..Len(l) : g <= Upto(l)[c]}
  <2>1. g \in Nat /\ 1 <= g /\ g <= Upto(l)[Len(l)]
    BY <1>2 DEF All
  <2>2. PICK c \in To : \A d \in To : c <= d
    <3>1. To \in SUBSET Nat /\ Len(l) \in To
      BY <1>1, <2>1
    <3> HIDE DEF To
    <3> QED
      BY <3>1, LeastNatural
  <2>3. c \in 0..Len(l) /\ g <= Upto(l)[c]
    BY <2>2
  <2>4. c # 0
    BY <1>1, <2>1, <2>3
  <2>5. c \in 1..Len(l) /\ c - 1 \in 0..Len(l) /\ ~(c <= c - 1)
    BY <1>1, <2>3, <2>4
  <2>6. ~(g <= Upto(l)[c - 1])
    BY <2>2, <2>5
  <2>7. Upto(l)[c - 1] \in Nat
    BY <1>2, <2>5
  <2>8. Upto(l)[c - 1] < g
    BY <2>1, <2>6, <2>7
  <2> QED
    BY <2>3, <2>5, <2>8
<1>4. ASSUME NEW g \in All(l)
      PROVE ColumnOf(l, g) \in 1..Len(l) /\ Upto(l)[ColumnOf(l, g) - 1] < g /\ g <= Upto(l)[ColumnOf(l, g)]
  BY <1>3, Zenon DEF ColumnOf
<1> QED
  BY <1>2, <1>4

LEMMA Parted ==
  ASSUME NEW n \in 1..Size
  PROVE  Size \div n \in 1..Size
<1>1. Size \in Nat /\ n \in Nat /\ 1 <= n /\ n <= Size
  BY VscodeAssumption
<1> QED
  BY <1>1

LEMMA RectOf ==
  ASSUME NEW l \in Layouts, NEW g \in All(l)
  PROVE  /\ Rect(l, g).x \in Int /\ Rect(l, g).y \in Int
         /\ Rect(l, g).w \in 1..Size /\ Rect(l, g).h \in 1..Size
<1>1. PICK c, u, w, h : c = ColumnOf(l, g) /\ u = Upto(l)[c - 1] /\ w = Size \div Len(l) /\ h = Size \div l[c]
  OBVIOUS
<1>2. c \in 1..Len(l) /\ Len(l) \in 1..Size /\ l[c] \in 1..Size /\ u \in Nat /\ g \in Nat
  <2>1. c \in 1..Len(l) /\ Len(l) \in 1..Size
    BY <1>1, Columns, ColumnFound
  <2>2. c - 1 \in 0..Len(l)
    BY <2>1
  <2>3. u \in Nat
    BY <1>1, <2>2, ColumnFound
  <2>4. l[c] \in 1..Size
    BY <2>1, Columns
  <2> QED
    BY <2>1, <2>3, <2>4 DEF All
<1>3. w \in 1..Size /\ h \in 1..Size
  BY <1>1, <1>2, Parted
<1>4. Rect(l, g) = [x |-> (c - 1) * w, y |-> (g - u - 1) * h, w |-> w, h |-> h]
  BY <1>1, Zenon DEF Rect
<1>5. (c - 1) * w \in Int /\ (g - u - 1) * h \in Int
  <2>1. c - 1 \in Int /\ w \in Int /\ g - u - 1 \in Int /\ h \in Int
    BY <1>2, <1>3
  <2> QED
    BY <2>1
<1> QED
  BY <1>3, <1>4, <1>5

LEMMA SharedIs ==
  ASSUME NEW a \in Int, NEW b \in Int, NEW alen \in 1..Size, NEW blen \in 1..Size
  PROVE  Shared(a, alen, b, blen) \in Int /\ Shared(a, alen, b, blen) <= Size
<1>1. alen \in Int /\ blen \in Int /\ Size \in Int /\ alen <= Size /\ 1 <= alen /\ 1 <= blen
  BY VscodeAssumption
<1> QED
  BY <1>1 DEF Shared

LEMMA FarAndWide ==
  ASSUME NEW l \in Layouts, NEW g \in All(l), NEW h \in All(l), NEW dir \in Direction
  PROVE  /\ Distance(Rect(l, g), Rect(l, h), dir) \in Int
         /\ Overlap(Rect(l, g), Rect(l, h), dir) \in Int /\ Overlap(Rect(l, g), Rect(l, h), dir) <= Size
<1>1. PICK s, c : s = Rect(l, g) /\ c = Rect(l, h)
  OBVIOUS
<1>2. s.x \in Int /\ s.y \in Int /\ s.w \in 1..Size /\ s.h \in 1..Size
      /\ c.x \in Int /\ c.y \in Int /\ c.w \in 1..Size /\ c.h \in 1..Size
  BY <1>1, RectOf
<1>3. Size \in Nat /\ s.w \in Int /\ s.h \in Int /\ c.w \in Int /\ c.h \in Int
  BY <1>2, VscodeAssumption
<1>4. Distance(s, c, dir) \in Int
  BY <1>2, <1>3 DEF Distance, Direction
<1>5. Overlap(s, c, dir) \in Int /\ Overlap(s, c, dir) <= Size
  BY <1>2, SharedIs DEF Overlap
<1> QED
  BY <1>1, <1>4, <1>5

\* The neighbour on a side is a group, and further that way.
LEMMA NeighborIsGroup ==
  ASSUME NEW l \in Layouts, NEW from \in All(l), NEW dir \in Direction
  PROVE  /\ neighbor[l][from][dir] \in All(l) \cup {0}
         /\ neighbor[l][from][dir] # 0 =>
              Distance(Rect(l, from), Rect(l, neighbor[l][from][dir]), dir) >= 0
<1> DEFINE Far(to) == Distance(Rect(l, from), Rect(l, to), dir)
           Wide(to) == Overlap(Rect(l, from), Rect(l, to), dir)
           side == {to \in All(l) \ {from} : Wide(to) > 0 /\ Far(to) >= 0}
           nearest == {to \in side : \A other \in side : Far(to) <= Far(other)}
           widest == {to \in nearest : \A other \in nearest : Wide(to) >= Wide(other)}
<1>1. \A to \in All(l) : Far(to) \in Int /\ Wide(to) \in Int /\ Wide(to) <= Size
  BY FarAndWide
<1>2. Neighbor(l, from, dir) = IF side = {} THEN 0 ELSE CHOOSE to \in widest : \A other \in widest : to <= other
  BY DEF Neighbor
<1>3. side \subseteq All(l) /\ nearest \subseteq side /\ widest \subseteq nearest /\ All(l) \subseteq Nat /\ Size \in Nat
  BY VscodeAssumption DEF All
<1>4. \A to \in side : Far(to) >= 0
  OBVIOUS
<1>5. neighbor[l][from][dir] = Neighbor(l, from, dir)
  BY DEF neighbor
<1>6. ASSUME NEW S, S \subseteq side, S # {} PROVE \E x \in S : \A y \in S : Far(x) <= Far(y)
  <2> DEFINE f == [to \in S |-> Far(to)]
  <2>1. f \in [S -> Nat]
    <3>1. ASSUME NEW to \in S PROVE Far(to) \in Nat
      <4>1. Far(to) \in Int /\ Far(to) >= 0
        BY <1>1, <1>3, <1>4, <1>6
      <4> HIDE DEF Far
      <4> QED
        BY <4>1
    <3> HIDE DEF Far
    <3> QED
      BY <3>1
  <2>2. \E x \in S : \A y \in S : f[x] <= f[y]
    <3> HIDE DEF f
    <3> QED
      BY <1>6, <2>1, LeastByMeasure
  <2> HIDE DEF Far
  <2> QED
    BY <2>2
<1>7. ASSUME NEW S, S \subseteq side, S # {} PROVE \E x \in S : \A y \in S : Wide(x) >= Wide(y)
  <2> DEFINE f == [to \in S |-> Size - Wide(to)]
  <2>1. \A to \in S : Wide(to) \in Int /\ Wide(to) <= Size
    BY <1>1, <1>3, <1>7
  <2> HIDE DEF Wide
  <2>2. f \in [S -> Nat]
    <3>1. ASSUME NEW to \in S PROVE Size - Wide(to) \in Nat
      BY <1>3, <2>1
    <3> QED
      BY <3>1
  <2>3. PICK x \in S : \A y \in S : f[x] <= f[y]
    <3> HIDE DEF f
    <3> QED
      BY <1>7, <2>2, LeastByMeasure
  <2>4. ASSUME NEW y \in S PROVE Wide(x) >= Wide(y)
    <3>1. Size - Wide(x) <= Size - Wide(y)
      BY <2>3
    <3> QED
      BY <1>3, <2>1, <3>1
  <2> QED
    BY <2>4
<1> HIDE DEF Far, Wide
<1>8. ASSUME side # {} PROVE Neighbor(l, from, dir) \in widest
  <2>1. nearest # {}
    <3>1. \E x \in side : \A y \in side : Far(x) <= Far(y)
      BY <1>6, <1>8
    <3> QED
      BY <3>1
  <2>2. widest # {}
    <3>1. \E x \in nearest : \A y \in nearest : Wide(x) >= Wide(y)
      BY <1>3, <1>7, <2>1
    <3> QED
      BY <3>1
  <2>3. widest \subseteq Nat
    BY <1>3
  <2> HIDE DEF side, nearest, widest
  <2>4. \E x \in widest : \A y \in widest : x <= y
    BY <2>2, <2>3, LeastNatural
  <2> QED
    BY <1>2, <1>8, <2>4, Zenon
<1>9. Neighbor(l, from, dir) # 0 => Neighbor(l, from, dir) \in side
  <2> HIDE DEF side, nearest, widest
  <2> QED
    BY <1>2, <1>3, <1>8
<1>10. Neighbor(l, from, dir) \in All(l) \cup {0}
  BY <1>3, <1>9
<1>11. Neighbor(l, from, dir) # 0 => Far(Neighbor(l, from, dir)) >= 0
  BY <1>9
<1> QED
  BY <1>5, <1>10, <1>11 DEF Far

LEMMA AreGroups ==
  ASSUME NEW l, NEW G
  PROVE  G \in Groups(l) <=> G \subseteq All(l) /\ G # {}
BY DEF Groups

LEMMA SomeGroup ==
  ASSUME NEW l \in Layouts
  PROVE  /\ 1 \in All(l) /\ All(l) \subseteq Nat \ {0} /\ IsFiniteSet(All(l)) /\ Cardinality(All(l)) \in Nat
         /\ All(l) \in Groups(l)
<1>1. l \in Seq(Nat) /\ Len(l) \in Nat /\ 1 <= Len(l) /\ l[Len(l)] \in Nat /\ 1 <= l[Len(l)]
  <2>1. Len(l) \in 1..Size /\ Len(l) \in 1..Len(l)
    BY Columns
  <2> QED
    BY <2>1, Columns
<1>2. Upto(l)[Len(l)] = Upto(l)[Len(l) - 1] + l[Len(l)]
  BY <1>1, UptoAddsUp
<1>3. Upto(l)[Len(l)] \in Nat /\ Upto(l)[Len(l) - 1] \in Nat
  <2>1. Len(l) - 1 \in 0..Len(l)
    BY <1>1
  <2> QED
    BY <2>1, ColumnFound
<1>4. Upto(l)[Len(l)] >= 1
  BY <1>1, <1>2, <1>3
<1>5. 1 \in All(l) /\ All(l) \subseteq Nat \ {0}
  BY <1>3, <1>4 DEF All
<1>6. IsFiniteSet(All(l)) /\ Cardinality(All(l)) \in Nat
  <2>1. PICK n \in Nat : n = Upto(l)[Len(l)]
    BY <1>3
  <2>2. IsFiniteSet(1..n)
    BY FS_Interval
  <2>3. IsFiniteSet(All(l))
    BY <2>1, <2>2 DEF All
  <2> QED
    BY <2>3, FS_CardinalityType
<1>7. All(l) \in Groups(l)
  BY <1>5, AreGroups
<1> QED
  BY <1>5, <1>6, <1>7

LEMMA AfterGroups ==
  ASSUME NEW l \in Layouts, NEW G \in Groups(l), NEW dir \in Direction
  PROVE  After(l, G, dir) \in Groups(l)
<1>1. \A g \in G : neighbor[l][g][dir] \in All(l) \cup {0}
  BY NeighborIsGroup, AreGroups
<1>2. G \subseteq All(l) /\ G # {}
  BY AreGroups
<1>3. After(l, G, dir) \subseteq All(l)
  BY <1>1, <1>2 DEF After
<1>4. After(l, G, dir) # {}
  BY <1>2 DEF After
<1> QED
  BY <1>3, <1>4, AreGroups

LEMMA WithinGroups ==
  ASSUME NEW l \in Layouts, NEW G
  PROVE  Within(l, G) \in Groups(l) /\ (G \in Groups(l) => Within(l, G) = G)
<1>1. All(l) \in Groups(l)
  BY SomeGroup
<1>2. G \cap All(l) # {} => G \cap All(l) \in Groups(l)
  BY AreGroups
<1>3. G \in Groups(l) => G \cap All(l) = G /\ G # {}
  BY AreGroups
<1> QED
  BY <1>1, <1>2, <1>3 DEF Within

-----------------------------------------------------------------------------
(* Moving in one direction *)

LEMMA Further ==
  ASSUME NEW l \in Layouts, NEW g \in All(l), NEW dir \in Direction, neighbor[l][g][dir] # 0
  PROVE  Pos(l, g, dir) < Pos(l, neighbor[l][g][dir], dir)
<1>1. PICK h : h = neighbor[l][g][dir]
  OBVIOUS
<1>2. h \in All(l) /\ Distance(Rect(l, g), Rect(l, h), dir) >= 0
  BY <1>1, NeighborIsGroup
<1>3. PICK s, c : s = Rect(l, g) /\ c = Rect(l, h)
  OBVIOUS
<1>4. /\ s.x \in Int /\ s.y \in Int /\ s.w \in Int /\ s.h \in Int /\ s.w >= 1 /\ s.h >= 1
      /\ c.x \in Int /\ c.y \in Int /\ c.w \in Int /\ c.h \in Int /\ c.w >= 1 /\ c.h >= 1
  BY <1>2, <1>3, RectOf, VscodeAssumption
<1>5. Distance(s, c, dir) >= 0
  BY <1>2, <1>3
<1>6. CASE dir = "west"
  BY <1>1, <1>3, <1>4, <1>5, <1>6 DEF Distance, Pos
<1>7. CASE dir = "east"
  BY <1>1, <1>3, <1>4, <1>5, <1>7 DEF Distance, Pos
<1>8. CASE dir = "north"
  BY <1>1, <1>3, <1>4, <1>5, <1>8 DEF Distance, Pos
<1>9. CASE dir = "south"
  BY <1>1, <1>3, <1>4, <1>5, <1>9 DEF Distance, Pos
<1> QED
  BY <1>6, <1>7, <1>8, <1>9 DEF Direction

LEMMA PosInt ==
  ASSUME NEW l \in Layouts, NEW g \in All(l), NEW dir
  PROVE  Pos(l, g, dir) \in Int
<1>1. Rect(l, g).x \in Int /\ Rect(l, g).y \in Int
  BY RectOf
<1> QED
  BY <1>1 DEF Pos

\* A move leaves one more group behind; with one ahead there are two more in all.
LEMMA OneMoreBehind ==
  ASSUME NEW l \in Layouts, NEW g \in All(l), NEW dir \in Direction, neighbor[l][g][dir] # 0
  PROVE  LET h == neighbor[l][g][dir]
         IN  /\ Cardinality(Before(l, g, dir)) \in Nat /\ Cardinality(Before(l, h, dir)) \in Nat
             /\ Cardinality(Before(l, g, dir)) + 1 <= Cardinality(Before(l, h, dir))
             /\ Cardinality(Before(l, g, dir)) + 2 <= Cardinality(All(l))
<1> DEFINE h == neighbor[l][g][dir]
           A == Before(l, g, dir)
           B == Before(l, h, dir)
<1>1. h \in All(l) /\ Pos(l, g, dir) < Pos(l, h, dir)
  BY NeighborIsGroup, Further
<1>2. \A k \in All(l) : Pos(l, k, dir) \in Int
  BY PosInt
<1> HIDE DEF h
<1>3. A \subseteq All(l) /\ B \subseteq All(l) /\ g \notin A /\ g \in B /\ h \notin B /\ A \subseteq B
  BY <1>1, <1>2 DEF Before
<1> HIDE DEF A, B
<1>4. IsFiniteSet(A) /\ IsFiniteSet(B) /\ IsFiniteSet(All(l))
  BY <1>3, SomeGroup, FS_Subset
<1>5. Cardinality(A) \in Nat /\ Cardinality(B) \in Nat /\ Cardinality(All(l)) \in Nat
  BY <1>4, FS_CardinalityType
<1>6. Cardinality(A \cup {g}) = Cardinality(A) + 1 /\ IsFiniteSet(A \cup {g})
  BY <1>3, <1>4, FS_AddElement
<1>7. Cardinality(A \cup {g}) <= Cardinality(B)
  BY <1>3, <1>4, FS_Subset
<1>8. Cardinality(B \cup {h}) = Cardinality(B) + 1 /\ IsFiniteSet(B \cup {h})
  BY <1>3, <1>4, FS_AddElement
<1>9. Cardinality(B \cup {h}) <= Cardinality(All(l))
  BY <1>1, <1>3, <1>4, FS_Subset
<1>10. Cardinality(A) + 1 <= Cardinality(B) /\ Cardinality(A) + 2 <= Cardinality(All(l))
  BY <1>5, <1>6, <1>7, <1>8, <1>9
<1> QED
  BY <1>5, <1>10 DEF h, A, B

LEMMA Advances ==
  ASSUME NEW l \in Layouts, NEW G \in Groups(l), NEW dir \in Direction, NEW n \in Nat,
         n = 0 \/ Advanced(l, G, dir, n)
  PROVE  /\ Advanced(l, After(l, G, dir), dir, n + 1)
         /\ AnyNeighbor(l, G, dir) => n + 1 < Cardinality(All(l))
<1>1. ASSUME NEW g \in G, neighbor[l][g][dir] # 0
      PROVE  /\ n + 1 <= Cardinality(Before(l, neighbor[l][g][dir], dir))
             /\ n + 1 < Cardinality(All(l))
  <2>1. PICK h, a, b, c : h = neighbor[l][g][dir] /\ a = Cardinality(Before(l, g, dir))
                          /\ b = Cardinality(Before(l, h, dir)) /\ c = Cardinality(All(l))
    OBVIOUS
  <2>2. a \in Nat /\ b \in Nat /\ a + 1 <= b /\ a + 2 <= c
    BY <1>1, <2>1, OneMoreBehind, AreGroups
  <2>3. c \in Nat
    BY <2>1, SomeGroup
  <2>4. n <= a
    BY <1>1, <2>1, <2>2 DEF Advanced
  <2>5. n + 1 <= b /\ n + 1 < c
    BY <2>2, <2>3, <2>4
  <2> QED
    BY <2>1, <2>5
<1>2. ASSUME NEW h \in After(l, G, dir)
      PROVE  neighbor[l][h][dir] = 0 \/ n + 1 <= Cardinality(Before(l, h, dir))
  <2>1. PICK g \in G : h = IF neighbor[l][g][dir] = 0 THEN g ELSE neighbor[l][g][dir]
    BY DEF After
  <2> QED
    BY <1>1, <2>1
<1> QED
  BY <1>1, <1>2 DEF Advanced, AnyNeighbor

-----------------------------------------------------------------------------
(* Ways through the queue *)

LEMMA NowThere ==
  ASSUME NEW l, NEW a, NEW B, Leads(l, a, <<>>, B)
  PROVE  a \in B
<1>1. PICK path \in [1..1 -> SUBSET All(l)] : IsPath(l, a, <<>>, B, path)
  BY DEF Leads
<1>2. a \in path[1] /\ path[1] \subseteq B
  BY <1>1 DEF IsPath
<1> QED
  BY <1>2

LEMMA AlwaysLeads ==
  ASSUME NEW l \in Layouts, NEW a \in All(l), NEW qu \in Seq(Command)
  PROVE  Leads(l, a, qu, All(l))
<1> DEFINE path == [i \in 1..Len(qu) + 1 |-> All(l)]
<1>1. path \in [1..Len(qu) + 1 -> SUBSET All(l)]
  OBVIOUS
<1>2. \A i \in 1..Len(qu) + 1 : path[i] = All(l)
  OBVIOUS
<1>3. 1 \in 1..Len(qu) + 1 /\ Len(qu) + 1 \in 1..Len(qu) + 1 /\ \A i \in 1..Len(qu) : i + 1 \in 1..Len(qu) + 1
  OBVIOUS
<1> HIDE DEF path
<1>4. IsPath(l, a, qu, All(l), path)
  BY <1>1, <1>2, <1>3 DEF IsPath
<1> QED
  BY <1>1, <1>4 DEF Leads

LEMMA LeadsInto ==
  ASSUME NEW l \in Layouts, NEW a, NEW qu, NEW B, NEW C, Leads(l, a, qu, B), B \cap All(l) \subseteq C, qu \in Seq(Command)
  PROVE  Leads(l, a, qu, C)
<1>1. PICK path \in [1..Len(qu) + 1 -> SUBSET All(l)] : IsPath(l, a, qu, B, path)
  BY DEF Leads
<1>2. Len(qu) + 1 \in 1..Len(qu) + 1
  OBVIOUS
<1>3. path[Len(qu) + 1] \subseteq C
  BY <1>1, <1>2 DEF IsPath
<1>4. IsPath(l, a, qu, C, path)
  BY <1>1, <1>3, Zenon DEF IsPath
<1> QED
  BY <1>1, <1>4 DEF Leads

\* One command less.
LEMMA PathShrinks ==
  ASSUME NEW l \in Layouts, NEW a, NEW qu \in Seq(Command), qu # <<>>, NEW B,
         NEW path \in [1..Len(qu) + 1 -> SUBSET All(l)], IsPath(l, a, qu, B, path),
         NEW b \in All(l), Taken(l, Head(qu), a, b)
  PROVE  \E rest \in [1..Len(Tail(qu)) + 1 -> SUBSET All(l)] :
           /\ IsPath(l, b, Tail(qu), B, rest)
           /\ (\A i \in 1..Len(qu) : Safe(l, qu[i], path[i])) =>
                /\ Safe(l, Head(qu), path[1]) /\ a \in path[1]
                /\ \A i \in 1..Len(Tail(qu)) : Safe(l, Tail(qu)[i], rest[i])
<1> DEFINE rest == [i \in 1..Len(qu) |-> path[i + 1]]
<1>1. /\ Tail(qu) \in Seq(Command) /\ Len(Tail(qu)) = Len(qu) - 1 /\ Len(qu) \in Nat /\ Len(qu) >= 1
      /\ Head(qu) = qu[1] /\ \A i \in 1..Len(qu) - 1 : Tail(qu)[i] = qu[i + 1]
  OBVIOUS
<1>2. \A i \in 1..Len(qu) : i + 1 \in 1..Len(qu) + 1
  BY <1>1
<1>3. rest \in [1..Len(qu) -> SUBSET All(l)] /\ \A i \in 1..Len(qu) : rest[i] = path[i + 1]
  BY <1>2
<1> HIDE DEF rest
<1>4. b \in rest[1]
  <2>1. 1 \in 1..Len(qu)
    BY <1>1
  <2>2. a \in path[1] /\ Taken(l, qu[1], a, b)
    BY <1>1 DEF IsPath
  <2>3. b \in path[1 + 1]
    BY <2>1, <2>2 DEF IsPath
  <2> QED
    BY <1>3, <2>1, <2>3
<1>5. rest[Len(qu)] \subseteq B
  <2>1. Len(qu) \in 1..Len(qu)
    BY <1>1
  <2> QED
    BY <1>3, <2>1 DEF IsPath
<1>6. ASSUME NEW i \in 1..Len(qu) - 1, NEW g \in rest[i], NEW h \in All(l), Taken(l, Tail(qu)[i], g, h)
      PROVE  h \in rest[i + 1]
  <2>1. i \in 1..Len(qu) /\ i + 1 \in 1..Len(qu)
    BY <1>1
  <2>2. g \in path[i + 1] /\ Taken(l, qu[i + 1], g, h)
    BY <1>1, <1>3, <1>6, <2>1
  <2>3. h \in path[(i + 1) + 1]
    BY <2>1, <2>2 DEF IsPath
  <2> QED
    BY <1>3, <2>1, <2>3
<1>7. Len(Tail(qu)) + 1 = Len(qu)
  BY <1>1
<1>8. IsPath(l, b, Tail(qu), B, rest)
  BY <1>1, <1>3, <1>4, <1>5, <1>6, <1>7 DEF IsPath
<1>9. ASSUME \A i \in 1..Len(qu) : Safe(l, qu[i], path[i])
      PROVE  Safe(l, Head(qu), path[1]) /\ a \in path[1] /\ \A i \in 1..Len(Tail(qu)) : Safe(l, Tail(qu)[i], rest[i])
  <2>1. 1 \in 1..Len(qu)
    BY <1>1
  <2>2. Safe(l, Head(qu), path[1]) /\ a \in path[1]
    BY <1>1, <1>9, <2>1 DEF IsPath
  <2>3. ASSUME NEW i \in 1..Len(Tail(qu)) PROVE Safe(l, Tail(qu)[i], rest[i])
    <3>1. i + 1 \in 1..Len(qu) /\ i \in 1..Len(qu) /\ i \in 1..Len(qu) - 1
      BY <1>1
    <3>2. Safe(l, qu[i + 1], path[i + 1])
      BY <1>9, <3>1
    <3> QED
      BY <1>1, <1>3, <3>1, <3>2
  <2> QED
    BY <2>2, <2>3
<1> QED
  BY <1>3, <1>7, <1>8, <1>9

LEMMA LeadsShrinks ==
  ASSUME NEW l \in Layouts, NEW a, NEW qu \in Seq(Command), qu # <<>>, NEW b \in All(l), Taken(l, Head(qu), a, b)
  PROVE  /\ \A B : Leads(l, a, qu, B) => Leads(l, b, Tail(qu), B)
         /\ \A B : Surely(l, a, qu, B) =>
              /\ Surely(l, b, Tail(qu), B) /\ Head(qu).cmd # "tearOut"
              /\ Head(qu).cmd = "move" => neighbor[l][a][Head(qu).arg] # 0
<1>1. ASSUME NEW B, Leads(l, a, qu, B) PROVE Leads(l, b, Tail(qu), B)
  <2>1. PICK path \in [1..Len(qu) + 1 -> SUBSET All(l)] : IsPath(l, a, qu, B, path)
    BY <1>1 DEF Leads
  <2> QED
    BY <2>1, PathShrinks DEF Leads
<1>2. ASSUME NEW B, Surely(l, a, qu, B)
      PROVE  /\ Surely(l, b, Tail(qu), B) /\ Head(qu).cmd # "tearOut"
             /\ Head(qu).cmd = "move" => neighbor[l][a][Head(qu).arg] # 0
  <2>1. PICK path \in [1..Len(qu) + 1 -> SUBSET All(l)] :
          IsPath(l, a, qu, B, path) /\ \A i \in 1..Len(qu) : Safe(l, qu[i], path[i])
    BY <1>2 DEF Surely
  <2>2. PICK rest \in [1..Len(Tail(qu)) + 1 -> SUBSET All(l)] :
          /\ IsPath(l, b, Tail(qu), B, rest)
          /\ Safe(l, Head(qu), path[1]) /\ a \in path[1]
          /\ \A i \in 1..Len(Tail(qu)) : Safe(l, Tail(qu)[i], rest[i])
    BY <2>1, PathShrinks
  <2>3. Surely(l, b, Tail(qu), B)
    BY <2>2 DEF Surely
  <2> QED
    BY <2>2, <2>3 DEF Safe
<1> QED
  BY <1>1, <1>2

\* One command more.
LEMMA LeadsGrows ==
  ASSUME NEW l \in Layouts, NEW a, NEW qu \in Seq(Command), NEW c \in Command, NEW B, NEW C,
         Leads(l, a, qu, B), \A g \in B \cap All(l), h \in All(l) : Taken(l, c, g, h) => h \in C
  PROVE  /\ Leads(l, a, Append(qu, c), C)
         /\ (\A i \in 1..Len(qu) : qu[i].cmd \notin {"move", "tearOut"}) /\ Safe(l, c, B \cap All(l)) =>
              Surely(l, a, Append(qu, c), C)
<1>1. PICK path \in [1..Len(qu) + 1 -> SUBSET All(l)] : IsPath(l, a, qu, B, path)
  BY DEF Leads
<1>2. PICK n \in Nat : n = Len(qu)
  OBVIOUS
<1> DEFINE more == [i \in 1..n + 2 |-> IF i = n + 2 THEN C \cap All(l) ELSE path[i]]
           qc == Append(qu, c)
<1>3. /\ qc \in Seq(Command) /\ Len(qc) = n + 1 /\ qc[n + 1] = c /\ \A i \in 1..n : qc[i] = qu[i]
  BY <1>2
<1> HIDE DEF qc
<1>4. \A i \in 1..n + 2 : i # n + 2 => i \in 1..n + 1
  OBVIOUS
<1>5. path \in [1..n + 1 -> SUBSET All(l)]
  BY <1>2
<1>6. more \in [1..n + 2 -> SUBSET All(l)]
  BY <1>4, <1>5
<1>7. more[n + 2] = C \cap All(l) /\ \A i \in 1..n + 1 : more[i] = path[i]
  OBVIOUS
<1> HIDE DEF more
<1>8. a \in more[1]
  <2>1. 1 \in 1..n + 1
    OBVIOUS
  <2> QED
    BY <1>1, <1>7, <2>1 DEF IsPath
<1>9. path[n + 1] \subseteq B \cap All(l)
  <2>1. n + 1 \in 1..n + 1
    OBVIOUS
  <2> QED
    BY <1>1, <1>2, <1>5, <2>1 DEF IsPath
<1>10. ASSUME NEW i \in 1..n + 1, NEW g \in more[i], NEW h \in All(l), Taken(l, qc[i], g, h)
       PROVE  h \in more[i + 1]
  <2>1. g \in path[i]
    BY <1>7, <1>10
  <2>2. CASE i = n + 1
    <3>1. g \in B \cap All(l) /\ Taken(l, c, g, h)
      BY <1>3, <1>9, <1>10, <2>1, <2>2
    <3>2. h \in C \cap All(l)
      BY <3>1
    <3>3. i + 1 = n + 2
      BY <2>2
    <3> QED
      BY <1>7, <3>2, <3>3
  <2>3. CASE i # n + 1
    <3>1. i \in 1..n /\ i + 1 \in 1..n + 1
      BY <2>3
    <3>2. Taken(l, qu[i], g, h)
      BY <1>3, <1>10, <3>1
    <3>3. h \in path[i + 1]
      BY <1>1, <1>2, <2>1, <3>1, <3>2 DEF IsPath
    <3> QED
      BY <1>7, <3>1, <3>3
  <2> QED
    BY <2>2, <2>3
<1>11. Len(qc) + 1 = n + 2
  BY <1>3
<1>12. IsPath(l, a, qc, C, more)
  BY <1>3, <1>6, <1>7, <1>8, <1>10, <1>11 DEF IsPath
<1>13. ASSUME \A i \in 1..Len(qu) : qu[i].cmd \notin {"move", "tearOut"}, Safe(l, c, B \cap All(l)), NEW i \in 1..n + 1
       PROVE  Safe(l, qc[i], more[i])
  <2>1. CASE i = n + 1
    <3>1. qc[i] = c /\ more[i] \subseteq B \cap All(l)
      BY <1>3, <1>7, <1>9, <2>1
    <3> QED
      BY <1>13, <3>1 DEF Safe
  <2>2. CASE i # n + 1
    <3>1. i \in 1..n
      BY <2>2
    <3>2. qc[i] = qu[i] /\ qu[i].cmd \notin {"move", "tearOut"}
      BY <1>2, <1>3, <1>13, <3>1
    <3> QED
      BY <3>2 DEF Safe
  <2> QED
    BY <2>1, <2>2
<1>14. Leads(l, a, qc, C)
  BY <1>6, <1>11, <1>12 DEF Leads
<1>15. (\A i \in 1..Len(qu) : qu[i].cmd \notin {"move", "tearOut"}) /\ Safe(l, c, B \cap All(l)) => Surely(l, a, qc, C)
  BY <1>3, <1>6, <1>11, <1>12, <1>13 DEF Surely
<1> QED
  BY <1>14, <1>15 DEF qc

-----------------------------------------------------------------------------
(* Beliefs *)

LEMMA ModelsOf ==
  ASSUME NEW st, IsState(st)
  PROVE  /\ \A m \in ToSet(Models(st)) : m.groups \in Groups(st.sig) /\ m.surface \in Surface
         /\ Latest(st) \in ToSet(Models(st))
         /\ Latest(st).groups = IF st.pending = <<>> THEN st.groups ELSE st.pending[1].groups
         /\ st.pending = <<>> => \A m \in ToSet(Models(st)) : m.groups = st.groups
<1>1. PICK now : now = [groups |-> st.groups, surface |-> st.surface]
  OBVIOUS
<1>2. PICK later : later = [groups |-> st.pending[1].groups, surface |-> st.pending[1].surface]
  OBVIOUS
<1>3. now.groups = st.groups /\ now.surface = st.surface /\ later.groups = st.pending[1].groups
      /\ later.surface = st.pending[1].surface
  BY <1>1, <1>2
<1>4. Models(st) = IF st.pending = <<>> \/ later = now THEN <<now>> ELSE <<now, later>>
  BY <1>1, <1>2 DEF Models
<1>5. st.groups \in Groups(st.sig) /\ st.surface \in Surface
  BY DEF IsState, States
<1>6. st.pending # <<>> => st.pending[1].groups \in Groups(st.sig) /\ st.pending[1].surface \in Surface
  <2>1. SUFFICES ASSUME st.pending # <<>> PROVE st.pending[1].groups \in Groups(st.sig) /\ st.pending[1].surface \in Surface
    OBVIOUS
  <2>2. PICK Laters : Laters = [groups : SUBSET Nat, surface : Surface, by : Proc, due : BOOLEAN]
    OBVIOUS
  <2>3. st.pending \in Seq(Laters)
    BY <2>2 DEF IsState, States
  <2>4. st.pending[1] \in Laters
    BY <2>1, <2>3
  <2> QED
    BY <2>1, <2>2, <2>4 DEF IsState
<1>7. CASE st.pending = <<>> \/ later = now
  <2>1. Models(st) = <<now>>
    BY <1>4, <1>7
  <2>2. ToSet(Models(st)) = {now} /\ Latest(st) = now
    BY <2>1 DEF ToSet, Latest, Last
  <2> QED
    BY <1>3, <1>5, <1>7, <2>2
<1>8. CASE ~(st.pending = <<>> \/ later = now)
  <2>1. Models(st) = <<now, later>>
    BY <1>4, <1>8
  <2>2. ToSet(Models(st)) = {now, later} /\ Latest(st) = later
    BY <2>1 DEF ToSet, Latest, Last
  <2> QED
    BY <1>3, <1>5, <1>6, <1>8, <2>2
<1> QED
  BY <1>7, <1>8

LEMMA DefaultIs ==
  ASSUME NEW l \in Layouts
  PROVE  IsState(Default(l)) /\ Default(l).sig = l /\ Latest(Default(l)).groups = All(l)
<1>1. /\ Default(l).sig = l /\ Default(l).groups = All(l) /\ Default(l).pending = <<>>
      /\ Default(l) \in States
  <2>1. All(l) \in SUBSET Nat
    BY SomeGroup
  <2> QED
    BY <2>1 DEF Default, States, Surface
<1>2. IsState(Default(l))
  BY <1>1, SomeGroup DEF IsState
<1> QED
  BY <1>1, <1>2, ModelsOf

LEMMA NormalIs ==
  ASSUME NEW st, st = NoState \/ IsState(st), NEW l \in Layouts
  PROVE  /\ IsState(Normal(st, l)) /\ Normal(st, l).sig = l
         /\ st = NoState \/ st.sig # l => Normal(st, l) = Default(l)
         /\ st # NoState /\ st.sig = l =>
              /\ Latest(Normal(st, l)).groups = IF st.pending = <<>> THEN st.groups ELSE st.pending[1].groups
              /\ Normal(st, l).pending = <<>> /\ st.pending # <<>> => Normal(st, l).groups = st.pending[1].groups
<1>1. CASE st = NoState \/ st.sig # l
  <2>1. Normal(st, l) = Default(l)
    BY <1>1 DEF Normal
  <2> QED
    BY <1>1, <2>1, DefaultIs
<1>2. CASE ~(st = NoState \/ st.sig # l)
  <2>1. IsState(st) /\ st.sig = l
    BY <1>2
  <2>2. st.pending # <<>> => st.pending[1].groups \in Groups(l) /\ st.pending[1].surface \in Surface
    <3>1. SUFFICES ASSUME st.pending # <<>> PROVE st.pending[1].groups \in Groups(l) /\ st.pending[1].surface \in Surface
      OBVIOUS
    <3>2. PICK Laters : Laters = [groups : SUBSET Nat, surface : Surface, by : Proc, due : BOOLEAN]
      OBVIOUS
    <3>3. st.pending \in Seq(Laters)
      BY <2>1, <3>2 DEF IsState, States
    <3>4. st.pending[1] \in Laters
      BY <3>1, <3>3
    <3> QED
      BY <2>1, <3>1, <3>2, <3>4 DEF IsState
  <2>3. st.groups \in Groups(l)
    BY <2>1 DEF IsState
  <2>4. \A G \in Groups(l) : G \in SUBSET Nat
    BY AreGroups, SomeGroup
  <2>5. CASE st.pending # <<>> /\ st.pending[1].due
    <3>1. PICK n : n = Normal(st, l)
      OBVIOUS
    <3>2. n = [sig |-> l, groups |-> st.pending[1].groups, surface |-> st.pending[1].surface, pending |-> <<>>]
      BY <1>2, <2>2, <2>5, <3>1, WithinGroups DEF Normal
    <3>3. n \in States /\ n.sig = l /\ n.groups = st.pending[1].groups /\ n.pending = <<>>
      BY <2>2, <2>4, <2>5, <3>2 DEF States
    <3>4. IsState(n)
      BY <2>2, <2>5, <3>3 DEF IsState
    <3> QED
      BY <1>2, <2>5, <3>1, <3>3, <3>4, ModelsOf
  <2>6. CASE ~(st.pending # <<>> /\ st.pending[1].due)
    <3>1. Normal(st, l) = [st EXCEPT !.groups = Within(l, st.groups)]
      BY <1>2, <2>6 DEF Normal
    <3>2. Within(l, st.groups) = st.groups
      BY <2>3, WithinGroups
    <3>3. [st EXCEPT !.groups = st.groups] = st
      BY <2>1 DEF IsState, States
    <3>4. Normal(st, l) = st
      BY <3>1, <3>2, <3>3
    <3> QED
      BY <1>2, <2>1, <3>4, ModelsOf
  <2> QED
    BY <2>5, <2>6
<1> QED
  BY <1>1, <1>2

LEMMA NewestOne ==
  ASSUME NEW st, IsState(st), NEW so, so \subseteq ToSet(Models(st)), so # {}
  PROVE  Newest(st, so) \in so
BY Zenon DEF Newest

LEMMA PlanIs ==
  ASSUME NEW st, IsState(st), NEW l, l = st.sig, NEW dir \in Direction, FocusPlan(l, st, dir) # <<>>
  PROVE  LET plan == FocusPlan(l, st, dir) IN plan = <<plan[1]>> /\ PlannedFrom(st, plan[1])
<1> DEFINE Plan(cmd, arg, m, groups, to) == <<[cmd |-> cmd, arg |-> arg, from |-> m.groups,
                                               next |-> [groups |-> groups, surface |-> to]]>>
           Surf(arg, m) == Plan("surface", arg, m, m.groups, arg)
           back == {m \in ToSet(Models(st)) : Returns(m, dir)}
           terminals == {m \in ToSet(Models(st)) : AmongTerminals(m, dir)}
           editors == {m \in ToSet(Models(st)) : m.surface = "editors"}
           edge == {m \in ToSet(Models(st)) : AtEdge(l, m, dir)}
           beyond == CHOOSE s \in Beyond(dir) : TRUE
<1>1. \A m \in ToSet(Models(st)) : m.groups \in Groups(l)
  BY ModelsOf
<1>2. st.pending = <<>> => \A m \in ToSet(Models(st)) : m.groups = st.groups
  BY ModelsOf
<1>3. ASSUME NEW arg \in Surface, NEW m \in ToSet(Models(st)), FocusPlan(l, st, dir) = Surf(arg, m)
      PROVE  LET plan == FocusPlan(l, st, dir) IN plan = <<plan[1]>> /\ PlannedFrom(st, plan[1])
  <2>1. PICK rec : rec = [cmd |-> "surface", arg |-> arg, from |-> m.groups,
                          next |-> [groups |-> m.groups, surface |-> arg]]
    OBVIOUS
  <2>2. FocusPlan(l, st, dir) = <<rec>>
    BY <1>3, <2>1
  <2>3. PlannedFrom(st, rec)
    BY <1>1, <2>1 DEF PlannedFrom
  <2> QED
    BY <2>2, <2>3
<1>4. CASE back # {}
  <2>1. FocusPlan(l, st, dir) = Surf("editors", Newest(st, back))
    BY <1>4 DEF FocusPlan
  <2>2. Newest(st, back) \in back
    BY <1>4, NewestOne
  <2> QED
    BY <1>3, <2>1, <2>2 DEF Surface
<1>5. CASE back = {} /\ terminals # {}
  <2>1. FocusPlan(l, st, dir) = Surf("terminal", Newest(st, terminals))
    BY <1>5 DEF FocusPlan
  <2>2. Newest(st, terminals) \in terminals
    BY <1>5, NewestOne
  <2> QED
    BY <1>3, <2>1, <2>2 DEF Surface
<1>6. CASE back = {} /\ terminals = {} /\ \E m \in editors : Near(l, m, dir)
  <2>1. PICK m : m = Newest(st, editors)
    OBVIOUS
  <2>2. FocusPlan(l, st, dir) = Plan("focus", dir, m, After(l, m.groups, dir), "editors")
    BY <1>6, <2>1 DEF FocusPlan
  <2>3. m \in editors
    BY <1>6, <2>1, NewestOne
  <2>4. PICK rec : rec = [cmd |-> "focus", arg |-> dir, from |-> m.groups,
                          next |-> [groups |-> After(l, m.groups, dir), surface |-> "editors"]]
    OBVIOUS
  <2>5. FocusPlan(l, st, dir) = <<rec>>
    BY <2>2, <2>4
  <2>6. m.groups \in Groups(st.sig)
    BY <1>1, <2>3
  <2>7. st.pending = <<>> => m.groups = st.groups /\ AnyNeighbor(st.sig, m.groups, dir)
    <3>1. PICK k \in editors : Near(l, k, dir)
      BY <1>6
    <3>2. AnyNeighbor(l, k.groups, dir)
      BY <3>1 DEF Near
    <3> QED
      BY <1>2, <2>3, <3>2
  <2>8. PlannedFrom(st, rec)
    BY <2>4, <2>6, <2>7 DEF PlannedFrom, Surface
  <2> QED
    BY <2>5, <2>8
<1>7. CASE back = {} /\ terminals = {} /\ ~(\E m \in editors : Near(l, m, dir)) /\ edge # {}
  <2>1. FocusPlan(l, st, dir) = Surf(beyond, Newest(st, edge))
    BY <1>7 DEF FocusPlan
  <2>2. Newest(st, edge) \in edge
    BY <1>7, NewestOne
  <2>3. beyond \in Surface
    <3>1. Beyond(dir) # {}
      BY <2>2 DEF AtEdge
    <3>2. beyond \in Beyond(dir)
      BY <3>1, Zenon
    <3>3. Beyond(dir) \subseteq Surface
      BY DEF Beyond, Surface
    <3> QED
      BY <3>2, <3>3
  <2> QED
    BY <1>3, <2>1, <2>2, <2>3
<1>8. CASE back = {} /\ terminals = {} /\ ~(\E m \in editors : Near(l, m, dir)) /\ edge = {}
  <2>1. FocusPlan(l, st, dir) = <<>>
    BY <1>8 DEF FocusPlan
  <2> QED
    BY <2>1
<1> QED
  BY <1>4, <1>5, <1>6, <1>7, <1>8

-----------------------------------------------------------------------------
(* A closed group *)

\* Two layouts whose columns agree up to c and whose sums start from there one
\* apart, the one shifted by d columns.
LEMMA OneLessFrom ==
  ASSUME NEW l \in Seq(Nat), NEW k \in Seq(Nat), NEW c \in 1..Len(l), NEW d \in {0, 1},
         Len(k) = Len(l) - d,
         \A i \in 1..Len(k) : i < c => k[i] = l[i],
         \A i \in 1..Len(k) : i > c \/ (i = c /\ d = 1) => k[i] = l[i + d],
         IF d = 0 THEN k[c] = l[c] - 1 ELSE l[c] = 1
  PROVE  \A i \in 0..Len(k) :
           Upto(k)[i] = IF i < c THEN Upto(l)[i] ELSE Upto(l)[i + d] - 1
<1> DEFINE u == Upto(l)
           v == Upto(k)
           Bad == {i \in 0..Len(k) : v[i] # IF i < c THEN u[i] ELSE u[i + d] - 1}
<1>1. /\ u[0] = 0 /\ \A j \in 0..Len(l) : u[j] \in Nat
      /\ \A j \in 1..Len(l) : u[j] = u[j - 1] + l[j]
  BY UptoAddsUp
<1>2. /\ v[0] = 0 /\ \A j \in 0..Len(k) : v[j] \in Nat
      /\ \A j \in 1..Len(k) : v[j] = v[j - 1] + k[j]
  BY UptoAddsUp
<1>0. /\ Len(l) \in Nat /\ Len(k) \in Nat /\ c \in Nat /\ 1 <= c /\ c <= Len(l)
      /\ (\A j \in 1..Len(l) : l[j] \in Nat) /\ (\A j \in 1..Len(k) : k[j] \in Nat)
  <2>1. Len(l) \in Nat /\ Len(k) \in Nat /\ c \in Nat /\ 1 <= c /\ c <= Len(l)
    BY LenProperties
  <2>2. (\A j \in 1..Len(l) : l[j] \in Nat) /\ (\A j \in 1..Len(k) : k[j] \in Nat)
    BY ElementOfSeq
  <2> QED
    BY <2>1, <2>2
<1>3. SUFFICES ASSUME Bad # {} PROVE FALSE
  OBVIOUS
<1> HIDE DEF u, v
<1>31. Bad \in SUBSET Nat
  BY <1>0
<1>4. PICK i \in Bad : \A j \in Bad : i <= j
  <2> HIDE DEF Bad
  <2> QED
    BY <1>3, <1>31, LeastNatural
<1>5. i \in 0..Len(k) /\ v[i] # (IF i < c THEN u[i] ELSE u[i + d] - 1)
  OBVIOUS
<1>51. i # 0
  BY <1>0, <1>1, <1>2, <1>5
<1>6. i \in Nat /\ i \in 1..Len(k) /\ i - 1 \in 0..Len(k) /\ v[i] = v[i - 1] + k[i]
  BY <1>0, <1>2, <1>5, <1>51
<1>61. i - 1 \notin Bad
  <2> HIDE DEF Bad
  <2>1. i - 1 \in Bad => i <= i - 1
    BY <1>4
  <2> QED
    BY <2>1, <1>6
<1>7. v[i - 1] = IF i - 1 < c THEN u[i - 1] ELSE u[i - 1 + d] - 1
  BY <1>6, <1>61
<1> HIDE DEF Bad
<1>8. CASE i < c
  <2>1. v[i - 1] = u[i - 1] /\ k[i] = l[i] /\ i \in 1..Len(l)
    BY <1>0, <1>6, <1>7, <1>8
  <2>2. u[i] = u[i - 1] + l[i]
    BY <2>1, <1>1
  <2> QED
    BY <2>1, <2>2, <1>5, <1>6, <1>8
<1>9. CASE i = c
  <2>1. v[c - 1] = u[c - 1] /\ v[c] = v[c - 1] + k[c] /\ c \in 1..Len(k)
    BY <1>0, <1>6, <1>7, <1>9
  <2>2. u[c] = u[c - 1] + l[c] /\ u[c] \in Nat /\ u[c - 1] \in Nat /\ l[c] \in Nat
    <3>1. c \in 1..Len(l) /\ c \in 0..Len(l) /\ c - 1 \in 0..Len(l)
      BY <1>0
    <3> QED
      BY <3>1, <1>0, <1>1
  <2>3. v[c] # u[c + d] - 1
    BY <1>5, <1>9, <1>0
  <2>4. CASE d = 0
    <3>1. c + d = c /\ k[c] = l[c] - 1
      BY <2>4, <1>0
    <3>2. v[c] # u[c] - 1
      BY <3>1, <2>3
    <3>3. v[c] = u[c - 1] + (l[c] - 1)
      BY <2>1, <3>1
    <3> DEFINE uc == u[c]
               ub == u[c - 1]
               vc == v[c]
               lc == l[c]
    <3>4. ub \in Nat /\ lc \in Nat /\ uc = ub + lc
      BY <2>2
    <3>5. vc # uc - 1 /\ vc = ub + (lc - 1)
      BY <3>2, <3>3
    <3> HIDE DEF uc, ub, vc, lc
    <3> QED
      BY <3>4, <3>5
  <2>5. CASE d = 1
    <3>1. k[c] = l[c + 1] /\ c + 1 \in 1..Len(l) /\ c + 1 - 1 = c /\ l[c] = 1 /\ l[c + 1] \in Nat
      BY <1>0, <2>1, <2>5
    <3>2. u[c + 1] = u[c] + l[c + 1]
      BY <1>1, <3>1
    <3>3. v[c] = u[c - 1] + l[c + 1]
      BY <2>1, <3>1
    <3>4. v[c] # u[c + 1] - 1
      BY <2>3, <2>5
    <3> DEFINE ua == u[c + 1]
               uc == u[c]
               ub == u[c - 1]
               vc == v[c]
               la == l[c + 1]
    <3>5. ub \in Nat /\ la \in Nat /\ uc = ub + 1 /\ ua = uc + la
      BY <2>2, <3>1, <3>2
    <3>6. vc # ua - 1 /\ vc = ub + la
      BY <3>3, <3>4
    <3> HIDE DEF ua, uc, ub, vc, la
    <3> QED
      BY <3>5, <3>6
  <2> QED
    BY <2>4, <2>5
<1>10. CASE i > c
  <2> DEFINE e == i - 1 + d
  <2>1. v[i - 1] = u[e] - 1 /\ k[i] = l[e + 1] /\ e + 1 = i + d /\ e + 1 \in 1..Len(l) /\ e \in 0..Len(l) /\ e + 1 - 1 = e
    BY <1>0, <1>6, <1>7, <1>10
  <2> HIDE DEF e
  <2>2. u[e + 1] = u[e] + l[e + 1] /\ u[e] \in Nat /\ l[e + 1] \in Nat
    BY <2>1, <1>0, <1>1
  <2>3. v[i] # u[e + 1] - 1
    <3>1. ~(i < c)
      BY <1>0, <1>6, <1>10
    <3> QED
      BY <3>1, <2>1, <1>5
  <2>4. v[i] = u[e] - 1 + l[e + 1]
    BY <2>1, <1>6
  <2> DEFINE ua == u[e + 1]
             ue == u[e]
             vi == v[i]
             la == l[e + 1]
  <2>5. ue \in Nat /\ la \in Nat /\ ua = ue + la
    BY <2>2
  <2>6. vi # ua - 1 /\ vi = ue - 1 + la
    BY <2>3, <2>4
  <2> HIDE DEF ua, ue, vi, la
  <2> QED
    BY <2>5, <2>6
<1> QED
  BY <1>0, <1>6, <1>8, <1>9, <1>10

\* A closed group takes one number off the groups.
LEMMA ClosedHasOneLess ==
  ASSUME NEW l \in Layouts, NEW g \in All(l), Cardinality(All(l)) > 1
  PROVE  Closed(l, g) \in Layouts /\ Upto(Closed(l, g))[Len(Closed(l, g))] = Upto(l)[Len(l)] - 1
<1> DEFINE c == ColumnOf(l, g)
           k == Closed(l, g)
<1>1. k \in Layouts
  BY VscodeAssumption
<1>2. l \in Seq(Nat) /\ k \in Seq(Nat) /\ Len(l) \in Nat /\ Len(l) >= 1 /\ Len(k) \in Nat /\ Len(k) >= 1 /\ c \in 1..Len(l) /\ l[c] \in Nat
  BY <1>1, Columns, ColumnFound
<1>3. CASE l[c] = 1
  <2>1. k = RemoveAt(l, c)
    BY <1>3 DEF Closed
  <2> DEFINE s == SubSeq(l, 1, c - 1)
             t == SubSeq(l, c + 1, Len(l))
  <2>11. k = s \o t
    BY <2>1 DEF RemoveAt
  <2> HIDE DEF k, c
  <2>12. s \in Seq(Nat) /\ Len(s) = c - 1 /\ \A i \in 1..c - 1 : s[i] = l[i]
    BY <1>2
  <2>13. t \in Seq(Nat) /\ Len(t) = Len(l) - c /\ \A i \in 1..Len(l) - c : t[i] = l[i + c]
    BY <1>2
  <2> HIDE DEF s, t
  <2>14. /\ Len(k) = Len(s) + Len(t)
         /\ \A i \in 1..Len(s) + Len(t) : k[i] = IF i <= Len(s) THEN s[i] ELSE t[i - Len(s)]
    BY <2>11, <2>12, <2>13, ConcatProperties
  <2>2. Len(k) = Len(l) - 1
    BY <1>2, <2>12, <2>13, <2>14
  <2>3. \A i \in 1..Len(k) : i < c => k[i] = l[i]
    BY <1>2, <2>12, <2>13, <2>14
  <2>4. \A i \in 1..Len(k) : i >= c => k[i] = l[i + 1]
    <3>1. SUFFICES ASSUME NEW i \in 1..Len(k), i >= c PROVE k[i] = l[i + 1]
      OBVIOUS
    <3>2. k[i] = t[i - (c - 1)]
      BY <3>1, <1>2, <2>12, <2>14
    <3>3. i - (c - 1) \in 1..Len(l) - c /\ i - (c - 1) + c = i + 1
      BY <3>1, <1>2, <2>2
    <3> QED
      BY <3>2, <3>3, <2>13
  <2>5. \A i \in 0..Len(k) : Upto(k)[i] = IF i < c THEN Upto(l)[i] ELSE Upto(l)[i + 1] - 1
    <3>1. /\ \A i \in 1..Len(k) : i > c \/ (i = c /\ 1 = 1) => k[i] = l[i + 1]
          /\ IF 1 = 0 THEN k[c] = l[c] - 1 ELSE l[c] = 1
      BY <1>2, <1>3, <2>4
    <3> QED
      BY <3>1, <1>2, <2>2, <2>3, OneLessFrom
  <2>6. CASE Len(k) >= c
    <3>0. Len(k) \in 0..Len(k) /\ ~(Len(k) < c) /\ Len(k) + 1 = Len(l)
      BY <1>2, <2>2, <2>6
    <3>1. Upto(k)[Len(k)] = Upto(l)[Len(k) + 1] - 1 /\ Len(k) + 1 = Len(l)
      BY <2>5, <3>0
    <3> QED
      BY <3>1, <1>1 DEF k
  <2>7. CASE Len(k) < c
    <3>0. Len(k) \in 0..Len(k) /\ c = Len(l) /\ Len(k) = Len(l) - 1
      BY <1>2, <2>2, <2>7
    <3>1. c = Len(l) /\ Upto(k)[Len(k)] = Upto(l)[Len(l) - 1]
      BY <2>5, <2>7, <3>0
    <3>2. Upto(l)[Len(l)] = Upto(l)[Len(l) - 1] + 1 /\ Upto(l)[Len(l) - 1] \in Nat
      <4>1. Len(l) \in 1..Len(l) /\ Len(l) - 1 \in 0..Len(l) /\ l[Len(l)] = 1
        BY <3>0, <1>2, <1>3
      <4> QED
        BY <4>1, <1>2, UptoAddsUp
    <3> QED
      BY <3>1, <3>2, <1>1 DEF k
  <2> QED
    BY <1>2, <2>6, <2>7
<1>4. CASE l[c] # 1
  <2>1. k = [l EXCEPT ![c] = @ - 1]
    BY <1>4 DEF Closed
  <2>2. Len(k) = Len(l) /\ k[c] = l[c] - 1 /\ \A i \in 1..Len(k) : i # c => k[i] = l[i]
    BY <1>2, <2>1
  <2> HIDE DEF k, c
  <2>3. /\ \A i \in 1..Len(k) : i < c => k[i] = l[i]
        /\ \A i \in 1..Len(k) : i > c \/ (i = c /\ 0 = 1) => k[i] = l[i + 0]
        /\ IF 0 = 0 THEN k[c] = l[c] - 1 ELSE l[c] = 1
        /\ Len(k) = Len(l) - 0
    BY <1>2, <2>2
  <2>4. \A i \in 0..Len(k) : Upto(k)[i] = IF i < c THEN Upto(l)[i] ELSE Upto(l)[i + 0] - 1
    BY <2>3, <1>2, OneLessFrom
  <2>5. Upto(k)[Len(k)] = Upto(l)[Len(l)] - 1
    BY <2>2, <2>4, <1>2
  <2> QED
    BY <2>5, <1>1 DEF k
<1> QED
  BY <1>3, <1>4
-----------------------------------------------------------------------------
(* Well-typed states *)

LEMMA SetIs ==
  ASSUME VInv, NEW p \in Proc, NEW s, NEW c, Set(p, s, c)
  PROVE  /\ pc' = [q \in Proc |-> pc'[q]] /\ r' = [q \in Proc |-> r'[q]]
         /\ pc'[p] = s /\ r'[p] = c
         /\ \A q \in Proc \ {p} : pc'[q] = pc[q] /\ r'[q] = r[q]
         /\ CallAt(s, c) => \A q \in Proc : CallAt(pc'[q], r'[q])
<1>1. pc = [q \in Proc |-> pc[q]] /\ r = [q \in Proc |-> r[q]] /\ \A q \in Proc : CallAt(pc[q], r[q])
  BY DEF VInv
<1>2. pc' = [pc EXCEPT ![p] = s] /\ r' = [r EXCEPT ![p] = c]
  BY DEF Set
<1>3. /\ pc' = [q \in Proc |-> pc'[q]] /\ pc'[p] = s
      /\ \A q \in Proc \ {p} : pc'[q] = pc[q]
  <2> DEFINE f == pc
             g == pc'
  <2>1. f = [q \in Proc |-> f[q]] /\ g = [f EXCEPT ![p] = s]
    BY <1>1, <1>2
  <2> HIDE DEF f, g
  <2>2. g = [q \in Proc |-> g[q]] /\ g[p] = s /\ \A q \in Proc \ {p} : g[q] = f[q]
    BY <2>1
  <2> QED
    BY <2>2 DEF f, g
<1>4. /\ r' = [q \in Proc |-> r'[q]] /\ r'[p] = c
      /\ \A q \in Proc \ {p} : r'[q] = r[q]
  <2> DEFINE f == r
             g == r'
  <2>1. f = [q \in Proc |-> f[q]] /\ g = [f EXCEPT ![p] = c]
    BY <1>1, <1>2
  <2> HIDE DEF f, g
  <2>2. g = [q \in Proc |-> g[q]] /\ g[p] = c /\ \A q \in Proc \ {p} : g[q] = f[q]
    BY <2>1
  <2> QED
    BY <2>2 DEF f, g
<1>5. ASSUME CallAt(s, c), NEW q \in Proc PROVE CallAt(pc'[q], r'[q])
  <2>1. CASE q = p
    BY <2>1, <1>3, <1>4, <1>5, Zenon
  <2>2. CASE q # p
    BY <2>2, <1>1, <1>3, <1>4, Zenon
  <2> QED
    BY <2>1, <2>2
<1> QED
  BY <1>3, <1>4, <1>5, Zenon

\* A step is a setting that leaves what the call knows.
LEMMA StepIs ==
  ASSUME VInv, NEW p \in Proc, NEW s, Step(p, s)
  PROVE  Set(p, s, r[p])
<1>1. r = [q \in Proc |-> r[q]]
  BY DEF VInv
<1>2. r' = r
  BY DEF Step
<1> DEFINE f == r
<1>3. f = [q \in Proc |-> f[q]] /\ r' = f
  BY <1>1, <1>2
<1> HIDE DEF f
<1>4. r' = [f EXCEPT ![p] = f[p]]
  BY <1>3
<1> QED
  BY <1>4 DEF f, Set, Step

LEMMA Fields ==
  ASSUME NEW c, c = [dir |-> c.dir, snap |-> c.snap, state |-> c.state, asked |-> c.asked, plan |-> c.plan],
         NEW x
  PROVE  /\ [c EXCEPT !.snap = x] = [dir |-> c.dir, snap |-> x, state |-> c.state, asked |-> c.asked, plan |-> c.plan]
         /\ [c EXCEPT !.asked = x] = [dir |-> c.dir, snap |-> c.snap, state |-> c.state, asked |-> x, plan |-> c.plan]
<1> DEFINE d == c.dir
           n == c.snap
           t == c.state
           k == c.asked
           l == c.plan
<1>1. c = [dir |-> d, snap |-> n, state |-> t, asked |-> k, plan |-> l]
  OBVIOUS
<1> HIDE DEF d, n, t, k, l
<1>2. [c EXCEPT !.snap = x] = [dir |-> d, snap |-> x, state |-> t, asked |-> k, plan |-> l]
  BY <1>1
<1>3. [c EXCEPT !.asked = x] = [dir |-> d, snap |-> n, state |-> t, asked |-> x, plan |-> l]
  BY <1>1
<1> QED
  BY <1>2, <1>3 DEF d, n, t, k, l

LEMMA IdleCall == CallAt("idle", NoRead) /\ CallAt("sleep", NoRead) /\ CallAt("outSettle", NoRead)
BY DEF CallAt, NoRead, Steps, Knowing

LEMMA VInit == Init => VInv
<1>1. SUFFICES ASSUME Init PROVE VInv
  OBVIOUS
<1>2. pc = [p \in Proc |-> "idle"] /\ r = [p \in Proc |-> NoRead]
  BY <1>1 DEF Init
<1>3. pc = [p \in Proc |-> pc[p]] /\ r = [p \in Proc |-> r[p]] /\ \A p \in Proc : CallAt(pc[p], r[p])
  BY <1>2, IdleCall
<1>4. queue \in Seq(Command)
  BY <1>1 DEF Init
<1> QED
  BY <1>1, <1>3, <1>4 DEF Init, VInv

\* A call that only reads keeps the rest as it is.
LEMMA ReadingKeeps ==
  ASSUME VInv, NEW p \in Proc, NEW s, NEW c, Set(p, s, c), CallAt(s, c),
         UNCHANGED <<layout, active>>, queue' \in Seq(Command), file' = NoState \/ IsState(file')
  PROVE  VInv'
<1>1. /\ pc' = [q \in Proc |-> pc'[q]] /\ r' = [q \in Proc |-> r'[q]]
      /\ \A q \in Proc : CallAt(pc'[q], r'[q])
  BY SetIs
<1>2. layout' \in Layouts /\ active' \in All(layout')
  BY DEF VInv
<1> QED
  BY <1>1, <1>2 DEF VInv

LEMMA BeginIs ==
  ASSUME VInv, NEW p \in Proc, Begin(p)
  PROVE  VInv'
<1>1. PICK dir \in Direction, first \in {"canFocus", "decide"} :
        Set(p, first, [NoRead EXCEPT !.dir = dir, !.snap = layout])
  BY DEF Begin
<1>2. layout \in Layouts /\ queue \in Seq(Command) /\ (file = NoState \/ IsState(file))
  BY DEF VInv
<1>3. [NoRead EXCEPT !.dir = dir, !.snap = layout]
        = [dir |-> dir, snap |-> layout, state |-> NoState, asked |-> NoState, plan |-> <<>>]
  <2> DEFINE e == [NoRead EXCEPT !.dir = dir]
  <2>1. e = [dir |-> dir, snap |-> <<>>, state |-> NoState, asked |-> NoState, plan |-> <<>>]
    BY DEF NoRead
  <2>2. [e EXCEPT !.snap = layout] = [dir |-> dir, snap |-> layout, state |-> NoState, asked |-> NoState, plan |-> <<>>]
    <3> HIDE DEF e
    <3> QED
      BY <2>1
  <2>3. [NoRead EXCEPT !.dir = dir, !.snap = layout] = [e EXCEPT !.snap = layout]
    OBVIOUS
  <2> QED
    BY <2>2, <2>3
<1>4. CallAt(first, [dir |-> dir, snap |-> layout, state |-> NoState, asked |-> NoState, plan |-> <<>>])
  BY <1>2 DEF CallAt, Steps, Knowing
<1>5. UNCHANGED <<layout, active, queue, file>>
  BY DEF Begin, vscode
<1> QED
  BY <1>1, <1>2, <1>3, <1>4, <1>5, ReadingKeeps

LEMMA LookIs ==
  ASSUME VInv, NEW p \in Proc, Look(p)
  PROVE  VInv'
<1> DEFINE next == [focusLook |-> "focus", moveLook |-> "move", outLook |-> "out",
                    settle |-> "save", outSettle |-> "outSave"]
           c == r[p]
           d == [c EXCEPT !.snap = layout]
<1>1. layout \in Layouts /\ queue \in Seq(Command) /\ (file = NoState \/ IsState(file)) /\ CallAt(pc[p], c)
  BY DEF VInv
<1>2. pc[p] \in DOMAIN next /\ Set(p, next[pc[p]], d) /\ UNCHANGED <<layout, active, queue, file>>
  BY DEF Look, vscode
<1>3. d = [dir |-> c.dir, snap |-> layout, state |-> c.state, asked |-> c.asked, plan |-> c.plan]
  BY <1>1, Fields DEF CallAt
<1>4. pc[p] \in {"focusLook", "moveLook", "outLook", "settle", "outSettle"}
  BY <1>2
<1>5. /\ pc[p] \in {"focusLook", "moveLook", "outLook"} => c.dir \in Direction
      /\ pc[p] = "settle" => c.plan = <<>> \/ c.plan = <<c.plan[1]>>
  BY <1>1 DEF CallAt, Knowing
<1>6. d.dir = c.dir /\ d.snap = layout /\ d.plan = c.plan /\ d.state = c.state
      /\ d = [dir |-> d.dir, snap |-> d.snap, state |-> d.state, asked |-> d.asked, plan |-> d.plan]
  BY <1>3
<1> HIDE DEF c, d
<1>7. CallAt(next[pc[p]], d)
  <2>1. CASE pc[p] = "focusLook"
    BY <2>1, <1>1, <1>5, <1>6 DEF CallAt, Steps, Knowing
  <2>2. CASE pc[p] = "moveLook"
    BY <2>2, <1>1, <1>5, <1>6 DEF CallAt, Steps, Knowing
  <2>3. CASE pc[p] = "outLook"
    BY <2>3, <1>1, <1>5, <1>6 DEF CallAt, Steps, Knowing
  <2>4. CASE pc[p] = "settle"
    BY <2>4, <1>1, <1>5, <1>6 DEF CallAt, Steps, Knowing
  <2>5. CASE pc[p] = "outSettle"
    BY <2>5, <1>1, <1>5, <1>6 DEF CallAt, Steps, Knowing
  <2> QED
    BY <1>4, <2>1, <2>2, <2>3, <2>4, <2>5
<1> QED
  BY <1>1, <1>2, <1>7, ReadingKeeps

\* What is asked is on its way unread: these calls only remember that they did.
LEMMA AskedIs ==
  ASSUME VInv, NEW p \in Proc, NEW s \in {"focusLook", "moveLook", "outLook"}, NEW st, pc[p] \in {"canFocus", "decide"}
  PROVE  CallAt(s, [r[p] EXCEPT !.asked = st])
<1> DEFINE c == r[p]
<1>1. CallAt(pc[p], c)
  BY DEF VInv
<1>2. c.dir \in Direction /\ c.snap \in Layouts
  BY <1>1 DEF CallAt, Knowing
<1>3. [c EXCEPT !.asked = st] = [dir |-> c.dir, snap |-> c.snap, state |-> c.state, asked |-> st, plan |-> c.plan]
  BY <1>1, Fields DEF CallAt
<1> DEFINE d == [c EXCEPT !.asked = st]
<1>4. d.dir = c.dir /\ d.snap = c.snap
      /\ d = [dir |-> d.dir, snap |-> d.snap, state |-> d.state, asked |-> d.asked, plan |-> d.plan]
  BY <1>3
<1> HIDE DEF c, d
<1>5. CallAt(s, d)
  BY <1>2, <1>4 DEF CallAt, Steps, Knowing
<1> QED
  BY <1>5 DEF c, d

LEMMA AskingIs ==
  ASSUME VInv, NEW p \in Proc, AskFocus(p) \/ Decide(p)
  PROVE  VInv'
<1>1. queue \in Seq(Command) /\ (file = NoState \/ IsState(file)) /\ UNCHANGED <<layout, active, queue, file>>
  BY DEF VInv, AskFocus, Decide, vscode
<1>2. \/ Set(p, "idle", NoRead)
      \/ \E s \in {"focusLook", "moveLook", "outLook"}, st \in {Normal(file, r[p].snap)} :
           pc[p] \in {"canFocus", "decide"} /\ Set(p, s, [r[p] EXCEPT !.asked = st])
  <2>1. CASE AskFocus(p)
    BY <2>1 DEF AskFocus, Ends
  <2>2. CASE Decide(p)
    BY <2>2 DEF Decide, Ends
  <2> QED
    BY <2>1, <2>2
<1>3. CASE Set(p, "idle", NoRead)
  BY <1>1, <1>3, IdleCall, ReadingKeeps
<1>4. ASSUME NEW s \in {"focusLook", "moveLook", "outLook"}, NEW st, pc[p] \in {"canFocus", "decide"}, Set(p, s, [r[p] EXCEPT !.asked = st])
      PROVE  VInv'
  <2> DEFINE d == [r[p] EXCEPT !.asked = st]
  <2>1. CallAt(s, d) /\ Set(p, s, d)
    BY <1>4, AskedIs
  <2> HIDE DEF d
  <2> QED
    BY <1>1, <2>1, ReadingKeeps
<1> QED
  BY <1>2, <1>3, <1>4

LEMMA FocusIs ==
  ASSUME VInv, NEW p \in Proc, Focus(p)
  PROVE  VInv'
<1> DEFINE c == r[p]
           st == Normal(file, c.snap)
           plan == FocusPlan(c.snap, st, c.dir)
           d == [NoRead EXCEPT !.state = st, !.plan = plan]
<1>1. queue \in Seq(Command) /\ (file = NoState \/ IsState(file)) /\ CallAt(pc[p], c)
  BY DEF VInv
<1>2. /\ pc[p] = "focus" /\ UNCHANGED <<layout, active, queue, file>>
      /\ IF plan = <<>> THEN Set(p, "idle", NoRead) ELSE Set(p, "focusSend", d)
  BY DEF Focus, Ends, vscode
<1>3. c.dir \in Direction /\ c.snap \in Layouts
  BY <1>1, <1>2 DEF CallAt, Knowing
<1>4. IsState(st) /\ st.sig = c.snap
  BY <1>1, <1>3, NormalIs
<1>5. plan # <<>> => plan = <<plan[1]>> /\ PlannedFrom(st, plan[1])
  BY <1>3, <1>4, PlanIs
<1>6. d = [dir |-> "none", snap |-> <<>>, state |-> st, asked |-> NoState, plan |-> plan]
  <2> HIDE DEF st, plan
  <2> DEFINE e == [NoRead EXCEPT !.state = st]
  <2>1. e = [dir |-> "none", snap |-> <<>>, state |-> st, asked |-> NoState, plan |-> <<>>]
    BY DEF NoRead
  <2>2. [e EXCEPT !.plan = plan] = [dir |-> "none", snap |-> <<>>, state |-> st, asked |-> NoState, plan |-> plan]
    <3> HIDE DEF e
    <3> QED
      BY <2>1
  <2> QED
    BY <2>2
<1> HIDE DEF c, st, plan
<1>7. d.state = st /\ d.plan = plan /\ d = [dir |-> d.dir, snap |-> d.snap, state |-> d.state, asked |-> d.asked, plan |-> d.plan]
  BY <1>6
<1> HIDE DEF d
<1>8. plan # <<>> => CallAt("focusSend", d)
  BY <1>4, <1>5, <1>7 DEF CallAt, Steps, Knowing
<1> QED
  BY <1>1, <1>2, <1>8, IdleCall, ReadingKeeps

LEMMA MoveIs ==
  ASSUME VInv, NEW p \in Proc, Move(p)
  PROVE  VInv'
<1> DEFINE c == r[p]
           st == Normal(file, c.snap)
           d == [c EXCEPT !.state = st, !.asked = NoState]
<1>1. queue \in Seq(Command) /\ (file = NoState \/ IsState(file)) /\ CallAt(pc[p], c)
  BY DEF VInv
<1>2. /\ pc[p] = "move" /\ UNCHANGED <<layout, active, queue, file>>
      /\ Set(p, "idle", NoRead) \/ Set(p, "moveSend", d)
  BY DEF Move, Ends, vscode
<1>3. c.dir \in Direction /\ c.snap \in Layouts
  BY <1>1, <1>2 DEF CallAt, Knowing
<1>4. IsState(st) /\ st.sig = c.snap
  BY <1>1, <1>3, NormalIs
<1>5. d = [dir |-> c.dir, snap |-> c.snap, state |-> st, asked |-> NoState, plan |-> c.plan]
  <2>1. c = [dir |-> c.dir, snap |-> c.snap, state |-> c.state, asked |-> c.asked, plan |-> c.plan]
    BY <1>1 DEF CallAt
  <2> DEFINE x == c.dir
             n == c.snap
             t == c.state
             k == c.asked
             l == c.plan
             e == [c EXCEPT !.state = st]
  <2>2. c = [dir |-> x, snap |-> n, state |-> t, asked |-> k, plan |-> l]
    BY <2>1
  <2> HIDE DEF c, st, x, n, t, k, l
  <2>3. e = [dir |-> x, snap |-> n, state |-> st, asked |-> k, plan |-> l]
    BY <2>2
  <2>4. [e EXCEPT !.asked = NoState] = [dir |-> x, snap |-> n, state |-> st, asked |-> NoState, plan |-> l]
    <3> HIDE DEF e
    <3> QED
      BY <2>3
  <2>5. d = [e EXCEPT !.asked = NoState]
    OBVIOUS
  <2> QED
    BY <2>4, <2>5 DEF x, n, l
<1>6. d.state = st /\ d.dir = c.dir /\ d.snap = c.snap
      /\ d = [dir |-> d.dir, snap |-> d.snap, state |-> d.state, asked |-> d.asked, plan |-> d.plan]
  BY <1>5
<1> HIDE DEF c, st, d
<1>7. CallAt("moveSend", d)
  BY <1>3, <1>4, <1>6 DEF CallAt, Steps, Knowing
<1> QED
  BY <1>1, <1>2, <1>7, IdleCall, ReadingKeeps

\* Commands are well-formed.
LEMMA SendIs ==
  ASSUME VInv, NEW cmd \in {"surface", "focus", "move", "tearOut"}, NEW arg \in Direction \cup Surface, Send(cmd, arg),
         cmd \in {"focus", "move"} => arg \in Direction
  PROVE  queue' \in Seq(Command) /\ [cmd |-> cmd, arg |-> arg] \in Command /\ queue' = Append(queue, [cmd |-> cmd, arg |-> arg])
<1>1. queue \in Seq(Command) /\ [cmd |-> cmd, arg |-> arg] \in Command /\ queue' = Append(queue, [cmd |-> cmd, arg |-> arg])
  BY DEF VInv, Send, Command
<1> QED
  BY <1>1

LEMMA FocusSendIs ==
  ASSUME VInv, NEW p \in Proc, FocusSend(p)
  PROVE  /\ VInv' /\ Set(p, "focusStore", r[p])
         /\ \E c \in Command : /\ c.cmd = r[p].plan[1].cmd /\ c.arg = r[p].plan[1].arg
                               /\ queue' = Append(queue, c)
<1> DEFINE c == r[p]
           plan == c.plan[1]
<1>1. queue \in Seq(Command) /\ (file = NoState \/ IsState(file)) /\ CallAt(pc[p], c)
  BY DEF VInv
<1>2. pc[p] = "focusSend" /\ Send(plan.cmd, plan.arg) /\ Step(p, "focusStore") /\ UNCHANGED <<layout, active, file>>
  BY DEF FocusSend
<1>3. Set(p, "focusStore", c)
  BY <1>2, StepIs
<1>4. PlannedFrom(c.state, plan)
  BY <1>1, <1>2 DEF CallAt
<1>5. /\ plan.cmd \in {"surface", "focus", "move", "tearOut"} /\ plan.arg \in Direction \cup Surface
      /\ plan.cmd \in {"focus", "move"} => plan.arg \in Direction
  BY <1>4 DEF PlannedFrom
<1> HIDE DEF plan
<1>6. queue' \in Seq(Command) /\ [cmd |-> plan.cmd, arg |-> plan.arg] \in Command /\ queue' = Append(queue, [cmd |-> plan.cmd, arg |-> plan.arg])
  BY <1>2, <1>5, SendIs
<1>7. CallAt("focusStore", c)
  BY <1>1, <1>2 DEF CallAt, Steps, Knowing
<1>8. VInv'
  BY <1>1, <1>2, <1>3, <1>6, <1>7, ReadingKeeps
<1>9. \E x \in Command : x.cmd = plan.cmd /\ x.arg = plan.arg /\ queue' = Append(queue, x)
  BY <1>6
<1> QED
  BY <1>3, <1>8, <1>9 DEF plan

\* The belief with what is to be believed soon.
LEMMA StagedIs ==
  ASSUME NEW st, IsState(st), NEW b, b.groups \in Groups(st.sig), b.surface \in Surface,
         NEW p \in Proc, NEW due \in BOOLEAN, NEW new, new = Later(st, b, p, due)
  PROVE  /\ IsState(new) /\ new.sig = st.sig /\ new.groups = st.groups /\ new.pending # <<>>
         /\ new.pending[1].groups = b.groups /\ Latest(new).groups = b.groups
<1> DEFINE Beliefs == [groups : SUBSET Nat, surface : Surface, by : Proc, due : BOOLEAN]
           G == b.groups
           s == b.surface
           one == [groups |-> G, surface |-> s, by |-> p, due |-> due]
<1>1. st \in [sig : Layouts, groups : SUBSET Nat, surface : Surface, pending : Seq(Beliefs)] /\ st.groups \in Groups(st.sig)
  BY DEF IsState, States
<1>2. G \subseteq Nat /\ s \in Surface
  BY <1>1, AreGroups, SomeGroup
<1> HIDE DEF G, s
<1>3. one \in Beliefs /\ one.groups = G
  BY <1>2
<1>4. new = [st EXCEPT !.pending = <<one>>]
  BY DEF Later, one, G, s
<1> HIDE DEF one, Beliefs
<1>5. <<one>> \in Seq(Beliefs) /\ <<one>>[1] = one /\ <<one>> # <<>>
  BY <1>3
<1>7. /\ new \in [sig : Layouts, groups : SUBSET Nat, surface : Surface, pending : Seq(Beliefs)]
      /\ new.sig = st.sig /\ new.groups = st.groups /\ new.pending = <<one>>
  BY <1>1, <1>4, <1>5
<1>8. new \in States
  BY <1>7 DEF States, Beliefs
<1>9. new.pending = <<new.pending[1]>> /\ new.pending[1].groups = G /\ new.pending # <<>>
  BY <1>3, <1>5, <1>7
<1>10. G \in Groups(st.sig)
  BY DEF G
<1>11. IsState(new)
  BY <1>1, <1>7, <1>8, <1>9, <1>10 DEF IsState
<1>12. Latest(new).groups = G
  BY <1>9, <1>11, ModelsOf
<1> QED
  BY <1>7, <1>9, <1>11, <1>12 DEF G

LEMMA FocusStoreIs ==
  ASSUME VInv, NEW p \in Proc, FocusStore(p)
  PROVE  /\ VInv' /\ Set(p, "sleep", NoRead) /\ pc[p] = "focusStore" /\ file' = Staged(p)
         /\ IsState(r[p].state) /\ PlannedFrom(r[p].state, r[p].plan[1])
         /\ IsState(file') /\ file'.sig = r[p].state.sig /\ file'.pending # <<>>
         /\ file'.pending[1].groups = r[p].plan[1].next.groups /\ Latest(file').groups = r[p].plan[1].next.groups
         /\ r[p].plan[1].next.groups \in Groups(r[p].state.sig)
<1> DEFINE c == r[p]
           plan == c.plan[1]
           st == c.state
<1>1. queue \in Seq(Command) /\ CallAt(pc[p], c)
  BY DEF VInv
<1>2. pc[p] = "focusStore" /\ Set(p, "sleep", NoRead) /\ UNCHANGED <<layout, active, queue>> /\ file' = Staged(p)
  BY DEF FocusStore, vscode
<1>3. IsState(st) /\ PlannedFrom(st, plan)
  BY <1>1, <1>2 DEF CallAt
<1>4. st.sig \in Layouts
  BY <1>3 DEF IsState, States
<1> DEFINE b == plan.next
<1>5. b.groups \in Groups(st.sig) /\ b.surface \in Surface
  BY <1>3, <1>4, AfterGroups DEF PlannedFrom
<1> DEFINE due == FALSE
           new == file'
<1>6. new = Later(st, b, p, due) /\ due \in BOOLEAN
  BY <1>2 DEF Staged
<1> HIDE DEF st, b, due, new
<1>7. IsState(file') /\ file'.sig = st.sig /\ file'.pending # <<>> /\ file'.pending[1].groups = b.groups /\ Latest(file').groups = b.groups
  <2>1. IsState(new) /\ new.sig = st.sig /\ new.pending # <<>> /\ new.pending[1].groups = b.groups /\ Latest(new).groups = b.groups
    BY <1>3, <1>5, <1>6, StagedIs
  <2> QED
    BY <2>1 DEF new
<1>8. VInv'
  BY <1>1, <1>2, <1>7, IdleCall, ReadingKeeps
<1> QED
  BY <1>2, <1>3, <1>5, <1>7, <1>8 DEF st, b

\* What is believed does not change with time.
LEMMA WakeIs ==
  ASSUME VInv, NEW p \in Proc, Wake(p)
  PROVE  /\ VInv' /\ Set(p, "idle", NoRead) /\ pc[p] = "sleep"
         /\ file = NoState <=> file' = NoState
         /\ file # NoState =>
              /\ IsState(file) /\ IsState(file') /\ file'.sig = file.sig /\ file'.groups = file.groups
              /\ file.pending = <<>> <=> file'.pending = <<>>
              /\ file.pending # <<>> => file'.pending[1].groups = file.pending[1].groups
<1>1. queue \in Seq(Command) /\ (file = NoState \/ IsState(file)) /\ NoState \notin States
  BY VscodeAssumption DEF VInv
<1>2. /\ pc[p] = "sleep" /\ Set(p, "idle", NoRead) /\ UNCHANGED <<layout, active, queue>>
      /\ \/ file' = file
         \/ file # NoState /\ file.pending # <<>> /\ file' = Later(file, file.pending[1], p, TRUE)
  BY DEF Wake, Ends, vscode
<1>3. ASSUME file # NoState, file.pending # <<>>, file' = Later(file, file.pending[1], p, TRUE)
      PROVE  /\ IsState(file') /\ file'.sig = file.sig /\ file'.groups = file.groups
             /\ file'.pending # <<>> /\ file'.pending[1].groups = file.pending[1].groups
  <2> DEFINE st == file
             one == st.pending[1]
             Beliefs == [groups : SUBSET Nat, surface : Surface, by : Proc, due : BOOLEAN]
  <2>1. st \in States /\ st.pending = <<one>> /\ one.groups \in Groups(st.sig) /\ IsState(st)
    BY <1>1, <1>3 DEF IsState
  <2>2. st.pending \in Seq(Beliefs) /\ Len(st.pending) = 1
    <3>1. st.pending \in Seq(Beliefs)
      BY <2>1 DEF States
    <3> HIDE DEF one
    <3> QED
      BY <2>1, <3>1
  <2>3. one \in Beliefs
    <3> HIDE DEF Beliefs
    <3> QED
      BY <2>2, ElementOfSeq
  <2>4. one.surface \in Surface
    BY <2>3
  <2> DEFINE due == TRUE
             new == file'
  <2>5. new = Later(st, one, p, due) /\ due \in BOOLEAN
    BY <1>3
  <2> HIDE DEF st, one, due, new
  <2>6. IsState(file') /\ file'.sig = st.sig /\ file'.groups = st.groups /\ file'.pending # <<>> /\ file'.pending[1].groups = one.groups
    <3>1. IsState(new) /\ new.sig = st.sig /\ new.groups = st.groups /\ new.pending # <<>> /\ new.pending[1].groups = one.groups
      BY <2>1, <2>4, <2>5, StagedIs
    <3> QED
      BY <3>1 DEF new
  <2> QED
    BY <2>6 DEF one, st
<1>4. /\ file = NoState <=> file' = NoState
      /\ file # NoState =>
              /\ IsState(file) /\ IsState(file') /\ file'.sig = file.sig /\ file'.groups = file.groups
              /\ file.pending = <<>> <=> file'.pending = <<>>
              /\ file.pending # <<>> => file'.pending[1].groups = file.pending[1].groups
  <2>1. CASE file' = file
    BY <2>1, <1>1
  <2>2. CASE file # NoState /\ file.pending # <<>> /\ file' = Later(file, file.pending[1], p, TRUE)
    <3>1. file' # NoState
      BY <2>2, <1>1, <1>3 DEF IsState
    <3> QED
      BY <2>2, <1>1, <1>3, <3>1
  <2> QED
    BY <1>2, <2>1, <2>2
<1>5. VInv'
  BY <1>1, <1>2, <1>4, IdleCall, ReadingKeeps
<1> QED
  BY <1>2, <1>4, <1>5

LEMMA PlanOnly ==
  ASSUME NEW plan, NEW d, d = [NoRead EXCEPT !.plan = plan]
  PROVE  d = [dir |-> d.dir, snap |-> d.snap, state |-> d.state, asked |-> d.asked, plan |-> d.plan] /\ d.plan = plan
BY DEF NoRead

LEMMA MoveSendIs ==
  ASSUME VInv, NEW p \in Proc, MoveSend(p)
  PROVE  /\ VInv' /\ pc[p] = "moveSend" /\ pc'[p] = "settle"
         /\ \A q \in Proc \ {p} : pc'[q] = pc[q] /\ r'[q] = r[q]
         /\ IsState(r[p].state) /\ r[p].snap = r[p].state.sig /\ r[p].dir \in Direction
         /\ \E c \in Command : c.cmd = "move" /\ c.arg = r[p].dir /\ queue' = Append(queue, c)
         /\ LET G == Latest(r[p].state).groups IN
            r'[p].plan # <<>> => /\ AllNeighbors(r[p].snap, G, r[p].dir)
                                 /\ r'[p].plan[1].next.groups = After(r[p].snap, G, r[p].dir)
<1> DEFINE c == r[p]
           G == Latest(c.state).groups
           one == [cmd |-> "move", arg |-> c.dir, next |-> [groups |-> After(c.snap, G, c.dir), surface |-> "editors"]]
           plan == IF AllNeighbors(c.snap, G, c.dir) THEN <<one>> ELSE <<>>
           d == [NoRead EXCEPT !.plan = plan]
<1>1. queue \in Seq(Command) /\ (file = NoState \/ IsState(file)) /\ CallAt(pc[p], c)
  BY DEF VInv
<1>2. pc[p] = "moveSend" /\ Send("move", c.dir) /\ Set(p, "settle", d) /\ UNCHANGED <<layout, active, file>>
  BY DEF MoveSend
<1>3. c.dir \in Direction /\ IsState(c.state) /\ c.snap = c.state.sig
  BY <1>1, <1>2 DEF CallAt, Knowing
<1>4. queue' \in Seq(Command) /\ [cmd |-> "move", arg |-> c.dir] \in Command /\ queue' = Append(queue, [cmd |-> "move", arg |-> c.dir])
  BY <1>2, <1>3, SendIs
<1>5. /\ plan # <<>> => plan = <<plan[1]>> /\ AllNeighbors(c.snap, G, c.dir) /\ plan[1].next.groups = After(c.snap, G, c.dir)
      /\ d = [dir |-> d.dir, snap |-> d.snap, state |-> d.state, asked |-> d.asked, plan |-> d.plan] /\ d.plan = plan
  <2>1. plan # <<>> => AllNeighbors(c.snap, G, c.dir) /\ plan = <<one>>
    OBVIOUS
  <2>2. one.next.groups = After(c.snap, G, c.dir)
    OBVIOUS
  <2>3. d = [dir |-> d.dir, snap |-> d.snap, state |-> d.state, asked |-> d.asked, plan |-> d.plan] /\ d.plan = plan
    <3> HIDE DEF plan
    <3> QED
      BY PlanOnly
  <2> HIDE DEF one, plan, d
  <2> QED
    BY <2>1, <2>2, <2>3
<1> HIDE DEF d, plan, one
<1>6. CallAt("settle", d)
  BY <1>5 DEF CallAt, Steps, Knowing
<1>7. VInv'
  BY <1>1, <1>2, <1>4, <1>6, ReadingKeeps
<1>8. /\ pc'[p] = "settle" /\ r'[p] = d
      /\ \A q \in Proc \ {p} : pc'[q] = pc[q] /\ r'[q] = r[q]
  BY <1>2, SetIs
<1>9. \E x \in Command : x.cmd = "move" /\ x.arg = c.dir /\ queue' = Append(queue, x)
  BY <1>4
<1> QED
  BY <1>2, <1>3, <1>5, <1>7, <1>8, <1>9

LEMMA FollowedIs ==
  ASSUME NEW p, NEW c, c = r[p], c.snap \in Layouts, NEW G,
         G = IF c.plan = <<>> THEN All(c.snap) ELSE Within(c.snap, c.plan[1].next.groups)
  PROVE  IsState(Followed(p)) /\ Followed(p).sig = c.snap /\ Latest(Followed(p)).groups = G
<1> DEFINE l == c.snap
           def == Default(l)
           st == Followed(p)
<1>1. IsState(def) /\ Latest(def).groups = All(l) /\ def.sig = l
  BY DefaultIs
<1>2. CASE c.plan = <<>>
  <2>1. st = def
    BY <1>2 DEF Followed
  <2> QED
    BY <1>1, <1>2, <2>1
<1>3. CASE c.plan # <<>>
  <2> DEFINE Beliefs == [groups : SUBSET Nat, surface : Surface, by : Proc, due : BOOLEAN]
  <2>1. st = [def EXCEPT !.groups = G]
    BY <1>3 DEF Followed
  <2>2. G \in Groups(l)
    BY <1>3, WithinGroups
  <2>3. def \in [sig : Layouts, groups : SUBSET Nat, surface : Surface, pending : Seq(Beliefs)] /\ def.pending = <<>> /\ def.sig = l
    BY <1>1 DEF IsState, States, Default
  <2>4. G \subseteq Nat
    BY <2>2, AreGroups, SomeGroup
  <2> HIDE DEF def, st, Beliefs, l
  <2>5. st \in [sig : Layouts, groups : SUBSET Nat, surface : Surface, pending : Seq(Beliefs)] /\ st.pending = <<>> /\ st.sig = l /\ st.groups = G
    BY <2>1, <2>3, <2>4
  <2>6. IsState(st)
    BY <2>2, <2>5 DEF IsState, States, Beliefs
  <2>7. Latest(st).groups = G
    BY <2>5, <2>6, ModelsOf
  <2> QED
    BY <2>5, <2>6, <2>7 DEF st, l
<1> QED
  BY <1>2, <1>3

LEMMA SaveIs ==
  ASSUME VInv, NEW p \in Proc, Save(p)
  PROVE  /\ VInv' /\ Set(p, "idle", NoRead) /\ pc[p] = "save"
         /\ IsState(file') /\ file'.sig = r[p].snap /\ r[p].snap \in Layouts
         /\ Latest(file').groups = IF r[p].plan = <<>> THEN All(r[p].snap) ELSE Within(r[p].snap, r[p].plan[1].next.groups)
<1>1. queue \in Seq(Command) /\ CallAt(pc[p], r[p])
  BY DEF VInv
<1>2. pc[p] = "save" /\ file' = Followed(p) /\ Set(p, "idle", NoRead) /\ UNCHANGED <<layout, active, queue>>
  BY DEF Save, Ends, vscode
<1>3. r[p].snap \in Layouts
  BY <1>1, <1>2 DEF CallAt
<1> DEFINE c == r[p]
           G == IF c.plan = <<>> THEN All(c.snap) ELSE Within(c.snap, c.plan[1].next.groups)
<1>4. IsState(Followed(p)) /\ Followed(p).sig = c.snap /\ Latest(Followed(p)).groups = G
  <2>1. c = r[p] /\ c.snap \in Layouts /\ G = IF c.plan = <<>> THEN All(c.snap) ELSE Within(c.snap, c.plan[1].next.groups)
    BY <1>3
  <2> HIDE DEF c, G
  <2> QED
    BY <2>1, FollowedIs
<1>5. VInv'
  BY <1>1, <1>2, <1>4, IdleCall, ReadingKeeps
<1> QED
  BY <1>2, <1>3, <1>4, <1>5

LEMMA MoveOutIs ==
  ASSUME VInv, NEW p \in Proc, MoveOut(p)
  PROVE  /\ VInv' /\ Set(p, "outSettle", NoRead) /\ pc[p] = "out"
<1>1. queue \in Seq(Command) /\ (file = NoState \/ IsState(file))
  BY DEF VInv
<1>2. /\ pc[p] = "out" /\ Set(p, "outSettle", NoRead) /\ UNCHANGED <<layout, active, file>>
      /\ Send("tearOut", "terminal") \/ Send("tearOut", "editors")
  BY DEF MoveOut
<1>3. {"terminal", "editors"} \subseteq Direction \cup Surface
  BY DEF Surface
<1>4. queue' \in Seq(Command)
  BY <1>2, <1>3, SendIs
<1> QED
  BY <1>1, <1>2, <1>4, IdleCall, ReadingKeeps

LEMMA RefreshIs ==
  ASSUME VInv, NEW p \in Proc, Refresh(p)
  PROVE  /\ VInv' /\ Set(p, "idle", NoRead) /\ pc[p] \in {"outSave", "outSettle"}
         /\ file' = NoState \/ (IsState(file') /\ Latest(file').groups = All(file'.sig))
<1>1. queue \in Seq(Command) /\ CallAt(pc[p], r[p])
  BY DEF VInv
<1>2. /\ Set(p, "idle", NoRead) /\ UNCHANGED <<layout, active, queue>>
      /\ \/ pc[p] = "outSave" /\ file' = Default(r[p].snap)
         \/ pc[p] = "outSettle" /\ file' = NoState
  BY DEF Refresh, Ends, vscode
<1>3. pc[p] = "outSave" => r[p].snap \in Layouts
  BY <1>1 DEF CallAt
<1>4. file' = NoState \/ (IsState(file') /\ Latest(file').groups = All(file'.sig))
  BY <1>2, <1>3, DefaultIs
<1>5. VInv'
  BY <1>1, <1>2, <1>4, IdleCall, ReadingKeeps
<1> QED
  BY <1>2, <1>4, <1>5

LEMMA DiesIs ==
  ASSUME VInv, NEW p \in Proc, Dies(p)
  PROVE  VInv' /\ Set(p, "idle", NoRead)
<1>1. queue \in Seq(Command) /\ (file = NoState \/ IsState(file)) /\ Set(p, "idle", NoRead) /\ UNCHANGED <<layout, active, queue, file>>
  BY DEF VInv, Dies, Ends, vscode
<1> QED
  BY <1>1, IdleCall, ReadingKeeps

\* What VS Code and the user do is not seen by the calls.
LEMMA WithoutCalls ==
  ASSUME VInv, layout' \in Layouts, active' \in All(layout'), queue' \in Seq(Command), UNCHANGED <<file, pc, r>>
  PROVE  VInv'
<1>1. /\ file = NoState \/ IsState(file)
      /\ pc = [p \in Proc |-> pc[p]] /\ r = [p \in Proc |-> r[p]] /\ \A p \in Proc : CallAt(pc[p], r[p])
  BY DEF VInv
<1> QED
  BY <1>1 DEF VInv

LEMMA ExecutesIs ==
  ASSUME VInv, Executes
  PROVE  /\ VInv' /\ queue # <<>> /\ queue' = Tail(queue)
         /\ layout' = layout => Taken(layout, Head(queue), active, active')
         /\ Head(queue).cmd # "tearOut" /\ (Head(queue).cmd = "move" => neighbor[layout][active][Head(queue).arg] # 0) /\ ~GroupsClose
              => layout' = layout
<1> DEFINE c == Head(queue)
           l == layout
           g == active
           to == IF c.arg \in Direction THEN neighbor[l][g][c.arg] ELSE 0
           N == Upto(l)[Len(l)]
<1>1. queue # <<>> /\ queue' = Tail(queue) /\ UNCHANGED <<file, pc, r>>
  BY DEF Executes
<1>2. l \in Layouts /\ g \in All(l) /\ queue \in Seq(Command)
  BY DEF VInv
<1>3. queue' \in Seq(Command) /\ c \in Command
  BY <1>1, <1>2
<1>4. (c.cmd \in {"focus", "move"} => c.arg \in Direction) /\ c.cmd \in {"surface", "focus", "move", "tearOut"}
  BY <1>3 DEF Command
<1>5. \A k : Cardinality(All(l)) > 1 /\ k = Closed(l, g) =>
        k \in Layouts /\ k # l /\ All(k) = 1..N - 1 /\ N \in Nat
  BY <1>2, ClosedHasOneLess, ColumnFound DEF All
<1>6. \/ /\ c.cmd = "surface" /\ UNCHANGED <<layout, active>>
      \/ /\ c.cmd = "focus" /\ to = 0 /\ UNCHANGED <<layout, active>>
      \/ /\ c.cmd = "move" /\ to = 0 /\ layout' \in Layouts /\ active' \in All(layout')
      \/ /\ c.cmd \in {"focus", "move"} /\ to # 0
         /\ \E closes \in {FALSE, GroupsClose /\ c.cmd = "move"} :
                 /\ layout' = IF closes THEN Closed(layout, active) ELSE layout
                 /\ active' = IF closes /\ to > active THEN to - 1 ELSE to
      \/ c.cmd = "tearOut" /\ UNCHANGED <<layout, active>>
      \/ c.cmd = "tearOut" /\ Cardinality(All(layout)) > 1 /\ layout' = Closed(layout, active) /\ active' \in All(layout')
  BY DEF Executes
<1> HIDE DEF c
<1>7. c.cmd \in {"focus", "move"} => to = neighbor[l][g][c.arg] /\ c.arg \in Direction
  BY <1>4
<1>8. \A h : Taken(l, c, g, h) <=>
              CASE c.cmd = "focus" -> h = IF neighbor[l][g][c.arg] = 0 THEN g ELSE neighbor[l][g][c.arg]
                [] c.cmd = "move" -> neighbor[l][g][c.arg] = 0 \/ h = neighbor[l][g][c.arg]
                [] OTHER -> h = g
  BY DEF Taken
<1> DEFINE Goal == /\ layout' \in Layouts /\ active' \in All(layout')
                   /\ layout' = layout => Taken(l, c, g, active')
                   /\ c.cmd # "tearOut" /\ (c.cmd = "move" => neighbor[l][g][c.arg] # 0) /\ ~GroupsClose => layout' = layout
<1>11. ASSUME c.cmd = "surface" /\ UNCHANGED <<layout, active>> PROVE Goal
  BY <1>2, <1>8, <1>11
<1>12. ASSUME c.cmd = "focus" /\ to = 0 /\ UNCHANGED <<layout, active>> PROVE Goal
  BY <1>2, <1>7, <1>8, <1>12
<1>13. ASSUME c.cmd = "move" /\ to = 0 /\ layout' \in Layouts /\ active' \in All(layout') PROVE Goal
  BY <1>7, <1>8, <1>13
<1>14. ASSUME c.cmd \in {"focus", "move"}, to # 0,
              NEW closes \in {FALSE, GroupsClose /\ c.cmd = "move"},
              layout' = IF closes THEN Closed(layout, active) ELSE layout,
              active' = IF closes /\ to > active THEN to - 1 ELSE to
       PROVE  Goal
  <2>1. to \in All(l) /\ to # g
    <3>1. to = neighbor[l][g][c.arg] /\ c.arg \in Direction
      BY <1>7, <1>14
    <3> DEFINE h == neighbor[l][g][c.arg]
    <3>2. h \in All(l)
      BY <1>2, <1>14, <3>1, NeighborIsGroup
    <3>3. Pos(l, g, c.arg) < Pos(l, h, c.arg) /\ Pos(l, g, c.arg) \in Int
      BY <1>2, <1>14, <3>1, Further, PosInt
    <3> QED
      BY <3>1, <3>2, <3>3
  <2>2. CASE closes
    <3>1. GroupsClose /\ c.cmd = "move"
      BY <1>14, <2>2
    <3>2. layout' = Closed(l, g) /\ active' = IF to > g THEN to - 1 ELSE to
      BY <1>14, <2>2
    <3>3. Cardinality(All(l)) > 1 /\ N \in Nat
      <4>1. N \in Nat /\ All(l) = 1..N
        BY <1>2, ColumnFound DEF All
      <4>2. Cardinality(All(l)) = N
        BY <4>1, FS_Interval
      <4> QED
        BY <1>2, <2>1, <4>1, <4>2
    <3>4. layout' \in Layouts /\ layout' # l /\ All(layout') = 1..N - 1
      BY <1>5, <3>2, <3>3
    <3>5. active' \in 1..N - 1
      <4>1. to \in 1..N /\ g \in 1..N /\ to # g
        BY <1>2, <2>1 DEF All
      <4> HIDE DEF to, g, N
      <4> QED
        BY <4>1, <3>2, <3>3
    <3> QED
      BY <3>1, <3>4, <3>5
  <2>3. CASE ~closes
    <3>1. layout' = l /\ active' = to
      BY <1>14, <2>3
    <3> QED
      BY <1>2, <1>7, <1>8, <1>14, <2>1, <3>1
  <2> QED
    BY <2>2, <2>3
<1>15. ASSUME c.cmd = "tearOut" /\ UNCHANGED <<layout, active>> PROVE Goal
  BY <1>2, <1>8, <1>15
<1>16. ASSUME c.cmd = "tearOut" /\ Cardinality(All(layout)) > 1 /\ layout' = Closed(layout, active) /\ active' \in All(layout') PROVE Goal
  BY <1>5, <1>16
<1>17. Goal
  <2> HIDE DEF to, Goal
  <2> QED
    BY <1>6, <1>11, <1>12, <1>13, <1>14, <1>15, <1>16
<1>18. VInv'
  BY <1>1, <1>3, <1>17, WithoutCalls
<1> QED
  BY <1>1, <1>17, <1>18 DEF c

LEMMA UserIs ==
  ASSUME VInv, UserClicks \/ UserSplits
  PROVE  VInv'
<1>1. layout' \in Layouts /\ active' \in All(layout') /\ queue' \in Seq(Command) /\ UNCHANGED <<file, pc, r>>
  BY DEF VInv, UserClicks, UserSplits, Acts
<1> QED
  BY <1>1, WithoutCalls

LEMMA VNext ==
  ASSUME VInv, [Next]_vars
  PROVE  VInv'
<1>1. ASSUME NEW p \in Proc, Call(p) PROVE VInv'
  BY <1>1, BeginIs, LookIs, AskingIs, FocusIs, FocusSendIs, FocusStoreIs, WakeIs, MoveIs, MoveSendIs, SaveIs,
     MoveOutIs, RefreshIs, DiesIs DEF Call
<1>2. CASE UNCHANGED vars
  BY <1>2, WithoutCalls DEF vars, VInv
<1> QED
  BY <1>1, <1>2, ExecutesIs, UserIs DEF Next
-----------------------------------------------------------------------------
(* The belief *)

\* What is believed of a layout.
LEMMA BelievedIs ==
  ASSUME NEW st, st = NoState \/ IsState(st), NEW l \in Layouts
  PROVE  /\ Believed(st, l) \in Groups(l)
         /\ st = NoState \/ st.sig # l => Believed(st, l) = All(l)
         /\ st # NoState /\ st.sig = l => Believed(st, l) = Latest(st).groups
<1> DEFINE n == Normal(st, l)
<1>1. IsState(n) /\ n.sig = l
  BY NormalIs
<1>2. Latest(n).groups \in Groups(l)
  BY <1>1, ModelsOf
<1>3. st = NoState \/ st.sig # l => Latest(n).groups = All(l)
  BY NormalIs, DefaultIs
<1>4. st # NoState /\ st.sig = l => Latest(n).groups = Latest(st).groups
  <2>1. SUFFICES ASSUME st # NoState, st.sig = l PROVE Latest(n).groups = Latest(st).groups
    OBVIOUS
  <2>2. Latest(n).groups = IF st.pending = <<>> THEN st.groups ELSE st.pending[1].groups
    BY <2>1, NormalIs
  <2>3. Latest(st).groups = IF st.pending = <<>> THEN st.groups ELSE st.pending[1].groups
    BY <2>1, ModelsOf
  <2> QED
    BY <2>2, <2>3
<1> QED
  BY <1>2, <1>3, <1>4 DEF Believed

LEMMA Elsewhere ==
  ASSUME NEW s, s \notin Changing, NEW c, NEW l, NEW a, NEW qu
  PROVE  FollowsAt(s, c, l, a, qu) /\ s \notin Sent
BY DEF FollowsAt, Changing, Sent

\* The call that changes the belief is the only one.
LEMMA OneCall ==
  ASSUME VInv, NEW p \in Proc, NEW s, NEW c, Set(p, s, c), UNCHANGED <<layout, active>>,
         trust' => \A q \in Proc \ {p} : pc[q] \notin Changing,
         trust' /\ ~older' => FollowsAt(s, c, layout, active, queue'),
         trust' /\ ~older' /\ s \notin Sent => Leads(layout, active, queue', Believed(file', layout))
  PROVE  TrustInv'
<1>1. /\ pc'[p] = s /\ r'[p] = c
      /\ \A q \in Proc \ {p} : pc'[q] = pc[q] /\ r'[q] = r[q]
  BY SetIs
<1>2. SUFFICES ASSUME trust'
               PROVE  /\ \A q, o \in Proc : pc'[q] \in Changing /\ pc'[o] \in Changing => q = o
                      /\ ~older' => /\ (\A q \in Proc : pc'[q] \notin Sent) => Leads(layout', active', queue', Believed(file', layout'))
                                    /\ \A q \in Proc : FollowsAt(pc'[q], r'[q], layout', active', queue')
  BY DEF TrustInv
<1>3. \A q \in Proc \ {p} : pc'[q] \notin Changing
  BY <1>1, <1>2
<1>4. ASSUME ~older', NEW q \in Proc PROVE FollowsAt(pc'[q], r'[q], layout', active', queue')
  <2>1. CASE q = p
    BY <1>1, <1>2, <1>4, <2>1
  <2>2. CASE q # p
    BY <1>3, <2>2, Elsewhere
  <2> QED
    BY <2>1, <2>2
<1>5. ASSUME ~older', \A q \in Proc : pc'[q] \notin Sent PROVE Leads(layout', active', queue', Believed(file', layout'))
  BY <1>1, <1>2, <1>5
<1> QED
  BY <1>3, <1>4, <1>5

\* A call that neither has nor gets a belief to change.
LEMMA QuietCall ==
  ASSUME VInv, TrustInv, NEW p \in Proc, NEW s, NEW c, Set(p, s, c), UNCHANGED <<layout, active, queue, trust, older>>,
         pc[p] \notin Changing, s \notin Changing, Believed(file', layout) = Believed(file, layout)
  PROVE  TrustInv'
<1>1. /\ pc'[p] = s /\ r'[p] = c
      /\ \A q \in Proc \ {p} : pc'[q] = pc[q] /\ r'[q] = r[q]
  BY SetIs
<1>2. SUFFICES ASSUME trust'
               PROVE  /\ \A q, o \in Proc : pc'[q] \in Changing /\ pc'[o] \in Changing => q = o
                      /\ ~older' => /\ (\A q \in Proc : pc'[q] \notin Sent) => Leads(layout', active', queue', Believed(file', layout'))
                                    /\ \A q \in Proc : FollowsAt(pc'[q], r'[q], layout', active', queue')
  BY DEF TrustInv
<1>3. /\ \A q, o \in Proc : pc[q] \in Changing /\ pc[o] \in Changing => q = o
      /\ ~older => /\ (\A q \in Proc : pc[q] \notin Sent) => Leads(layout, active, queue, Believed(file, layout))
                   /\ \A q \in Proc : FollowsAt(pc[q], r[q], layout, active, queue)
  BY <1>2 DEF TrustInv
<1>4. \A q, o \in Proc : pc'[q] \in Changing /\ pc'[o] \in Changing => q = o
  BY <1>1, <1>3
<1>5. ASSUME ~older', NEW q \in Proc PROVE FollowsAt(pc'[q], r'[q], layout', active', queue')
  <2>1. CASE q = p
    BY <1>1, <2>1, Elsewhere
  <2>2. CASE q # p
    BY <1>1, <1>3, <1>5, <2>2
  <2> QED
    BY <2>1, <2>2
<1>6. ASSUME ~older', \A q \in Proc : pc'[q] \notin Sent PROVE Leads(layout', active', queue', Believed(file', layout'))
  <2>1. pc[p] \notin Sent
    BY Elsewhere
  <2>2. \A q \in Proc : pc[q] \notin Sent
    BY <1>1, <1>6, <2>1
  <2> QED
    BY <1>3, <1>6, <2>2
<1> QED
  BY <1>4, <1>5, <1>6

LEMMA TrustInit == Init => TrustInv
<1>1. SUFFICES ASSUME Init PROVE TrustInv
  OBVIOUS
<1>2. VInv
  BY <1>1, VInit
<1>3. layout \in Layouts /\ active \in All(layout) /\ queue \in Seq(Command) /\ file = NoState /\ \A p \in Proc : pc[p] = "idle"
  BY <1>1, <1>2 DEF Init, VInv
<1>4. Leads(layout, active, queue, Believed(file, layout))
  BY <1>3, BelievedIs, AlwaysLeads
<1>5. "idle" \notin Changing
  BY DEF Changing
<1>6. \A p \in Proc : FollowsAt(pc[p], r[p], layout, active, queue)
  BY <1>3, <1>5, Elsewhere
<1> QED
  BY <1>3, <1>4, <1>5, <1>6 DEF TrustInv

LEMMA TrustQuiet ==
  ASSUME VInv, TrustInv, NEW p \in Proc, Begin(p) \/ AskFocus(p) \/ Decide(p) \/ Wake(p)
  PROVE  TrustInv'
<1>1. CASE Begin(p)
  <2>1. PICK dir \in Direction, first \in {"canFocus", "decide"} :
          Set(p, first, [NoRead EXCEPT !.dir = dir, !.snap = layout])
    BY <1>1 DEF Begin
  <2>2. pc[p] = "idle" /\ UNCHANGED <<layout, active, queue, file, trust, older>>
    BY <1>1 DEF Begin, vscode
  <2>3. pc[p] \notin Changing /\ first \notin Changing
    BY <2>2 DEF Changing
  <2> QED
    BY <2>1, <2>2, <2>3, QuietCall
<1>2. CASE AskFocus(p) \/ Decide(p)
  <2>1. UNCHANGED <<layout, active, queue, file, trust, older>> /\ pc[p] \in {"canFocus", "decide"}
    BY <1>2 DEF AskFocus, Decide, vscode
  <2>2. \E s \in {"idle", "focusLook", "moveLook", "outLook"} : \E c : Set(p, s, c)
    <3>1. CASE AskFocus(p)
      BY <3>1 DEF AskFocus, Ends
    <3>2. CASE Decide(p)
      BY <3>2 DEF Decide, Ends
    <3> QED
      BY <1>2, <3>1, <3>2
  <2>3. PICK s \in {"idle", "focusLook", "moveLook", "outLook"} : \E c : Set(p, s, c)
    BY <2>2
  <2>4. pc[p] \notin Changing /\ s \notin Changing
    BY <2>1 DEF Changing
  <2> QED
    BY <2>1, <2>3, <2>4, QuietCall
<1>3. CASE Wake(p)
  <2>1. UNCHANGED <<layout, active, queue, trust, older>>
    BY <1>3 DEF Wake, vscode
  <2>2. Set(p, "idle", NoRead) /\ pc[p] = "sleep"
    BY <1>3, WakeIs
  <2>3. pc[p] \notin Changing /\ "idle" \notin Changing
    BY <2>2 DEF Changing
  <2>4. layout \in Layouts /\ (file = NoState \/ IsState(file))
    BY DEF VInv
  <2>5. Believed(file', layout) = Believed(file, layout)
    <3>1. CASE file = NoState
      BY <1>3, <3>1, WakeIs
    <3>2. CASE file # NoState
      <4>1. /\ IsState(file) /\ IsState(file') /\ file' # NoState /\ file'.sig = file.sig /\ file'.groups = file.groups
            /\ file.pending = <<>> <=> file'.pending = <<>>
            /\ file.pending # <<>> => file'.pending[1].groups = file.pending[1].groups
        BY <1>3, <3>2, WakeIs
      <4>2. Latest(file').groups = Latest(file).groups
        BY <4>1, ModelsOf
      <4>3. CASE file.sig = layout
        BY <2>4, <3>2, <4>1, <4>2, <4>3, BelievedIs
      <4>4. CASE file.sig # layout
        BY <2>4, <3>2, <4>1, <4>4, BelievedIs
      <4> QED
        BY <4>3, <4>4
    <3> QED
      BY <3>1, <3>2
  <2> QED
    BY <2>1, <2>2, <2>3, <2>5, QuietCall
<1> QED
  BY <1>1, <1>2, <1>3

\* Alone, a call has a belief that can be trusted only if it read it there.
LEMMA ReadIs ==
  ASSUME VInv, TrustInv, NEW p \in Proc, NEW from, NEW st, st = Normal(file, r[p].snap), r[p].snap \in Layouts,
         pc[p] \notin Changing, Reads(p, st, from), trust'
  PROVE  /\ \A q \in Proc \ {p} : pc[q] \notin Changing
         /\ ~older' => from = Latest(st).groups /\ Leads(layout, active, queue, from)
                       /\ Leads(layout, active, queue, Believed(file, layout))
<1> DEFINE fresh == queue = <<>> /\ st = Default(layout)
<1>1. r[p].snap = layout /\ ~Overlaps(p) /\ (trust \/ fresh) /\ (~older' => ~(older /\ ~fresh) /\ from = Latest(st).groups)
  BY DEF Reads
<1>2. \A q \in Proc \ {p} : pc[q] \notin Changing
  BY <1>1 DEF Overlaps
<1>3. ASSUME ~older'
      PROVE  Leads(layout, active, queue, Believed(file, layout))
  <2>1. CASE fresh
    <3>1. layout \in Layouts /\ active \in All(layout) /\ queue \in Seq(Command)
      BY DEF VInv
    <3>2. Believed(file, layout) = All(layout)
      BY <1>1, <2>1, <3>1, DefaultIs DEF Believed
    <3> QED
      BY <3>1, <3>2, AlwaysLeads
  <2>2. CASE ~fresh
    <3>1. trust /\ ~older
      BY <1>1, <1>3, <2>2
    <3>2. \A q \in Proc : pc[q] \notin Sent
      BY <1>2, Elsewhere
    <3> QED
      BY <3>1, <3>2 DEF TrustInv
  <2> QED
    BY <2>1, <2>2
<1>4. Latest(st).groups = Believed(file, layout)
  BY <1>1 DEF Believed
<1> QED
  BY <1>1, <1>2, <1>3, <1>4

LEMMA TrustFocus ==
  ASSUME VInv, TrustInv, NEW p \in Proc, Focus(p)
  PROVE  TrustInv'
<1> DEFINE c == r[p]
           st == Normal(file, c.snap)
           plan == FocusPlan(c.snap, st, c.dir)
           d == [NoRead EXCEPT !.state = st, !.plan = plan]
<1>1. /\ pc[p] = "focus" /\ UNCHANGED <<layout, active, queue, file>>
      /\ IF plan = <<>> THEN Set(p, "idle", NoRead) /\ UNCHANGED <<trust, older>>
         ELSE Set(p, "focusSend", d) /\ Reads(p, st, plan[1].from)
  BY DEF Focus, Ends, vscode
<1>2. pc[p] \notin Changing /\ "idle" \notin Changing /\ "focusSend" \notin Sent
  BY <1>1 DEF Changing, Sent
<1>3. CASE plan = <<>>
  BY <1>1, <1>2, <1>3, QuietCall
<1>4. CASE plan # <<>>
  <2>1. c.snap \in Layouts
    BY <1>1 DEF VInv, CallAt, Knowing
  <2>2. d.state = st /\ d.plan = plan
    <3> HIDE DEF st, plan
    <3> DEFINE e == [NoRead EXCEPT !.state = st]
    <3>1. e = [dir |-> "none", snap |-> <<>>, state |-> st, asked |-> NoState, plan |-> <<>>]
      BY DEF NoRead
    <3>2. [e EXCEPT !.plan = plan] = [dir |-> "none", snap |-> <<>>, state |-> st, asked |-> NoState, plan |-> plan]
      <4> HIDE DEF e
      <4> QED
        BY <3>1
    <3> QED
      BY <3>2
  <2>3. Set(p, "focusSend", d) /\ Reads(p, st, plan[1].from)
    BY <1>1, <1>4
  <2> DEFINE from == plan[1].from
  <2> HIDE DEF d, st, plan, from
  <2>4. trust' => \A q \in Proc \ {p} : pc[q] \notin Changing
    BY <1>2, <2>1, <2>3, ReadIs DEF st, c, from
  <2>5. trust' /\ ~older' => Leads(layout, active, queue, from) /\ Leads(layout, active, queue, Believed(file, layout))
    BY <1>2, <2>1, <2>3, ReadIs DEF st, c, from
  <2>6. trust' /\ ~older' => FollowsAt("focusSend", d, layout, active, queue)
    BY <2>2, <2>5 DEF FollowsAt, from
  <2> QED
    BY <1>1, <1>2, <2>3, <2>4, <2>5, <2>6, OneCall
<1> QED
  BY <1>3, <1>4

LEMMA TrustMove ==
  ASSUME VInv, TrustInv, NEW p \in Proc, Move(p)
  PROVE  TrustInv'
<1> DEFINE c == r[p]
           st == Normal(file, c.snap)
           d == [c EXCEPT !.state = st, !.asked = NoState]
           from == Latest(st).groups
<1>1. /\ pc[p] = "move" /\ UNCHANGED <<layout, active, queue, file>>
      /\ \/ Set(p, "idle", NoRead) /\ UNCHANGED <<trust, older>>
         \/ Set(p, "moveSend", d) /\ Reads(p, st, from)
  BY DEF Move, Ends, vscode
<1>2. pc[p] \notin Changing /\ "idle" \notin Changing /\ "moveSend" \notin Sent
  BY <1>1 DEF Changing, Sent
<1>3. CASE Set(p, "idle", NoRead) /\ UNCHANGED <<trust, older>>
  BY <1>1, <1>2, <1>3, QuietCall
<1>4. CASE Set(p, "moveSend", d) /\ Reads(p, st, from)
  <2>1. c.snap \in Layouts /\ c = [dir |-> c.dir, snap |-> c.snap, state |-> c.state, asked |-> c.asked, plan |-> c.plan]
    BY <1>1 DEF VInv, CallAt, Knowing
  <2>2. d.state = st
    <3> HIDE DEF st, c
    <3> QED
      BY <2>1
  <2> HIDE DEF d, st
  <2>4. trust' => \A q \in Proc \ {p} : pc[q] \notin Changing
    BY <1>2, <1>4, <2>1, ReadIs DEF st, c
  <2>5. trust' /\ ~older' => Leads(layout, active, queue, from) /\ Leads(layout, active, queue, Believed(file, layout))
    BY <1>2, <1>4, <2>1, ReadIs DEF st, c
  <2>6. trust' /\ ~older' => FollowsAt("moveSend", d, layout, active, queue)
    BY <2>2, <2>5 DEF FollowsAt
  <2> QED
    BY <1>1, <1>2, <1>4, <2>4, <2>5, <2>6, OneCall
<1> QED
  BY <1>1, <1>3, <1>4

\* A call that has read the belief is the only one as long as it can be trusted.
LEMMA OnlyOne ==
  ASSUME TrustInv, NEW p \in Proc, pc[p] \in Changing, trust
  PROVE  /\ \A q \in Proc \ {p} : pc[q] \notin Changing
         /\ ~older => /\ FollowsAt(pc[p], r[p], layout, active, queue)
                      /\ pc[p] \notin Sent => Leads(layout, active, queue, Believed(file, layout))
<1>1. \A q \in Proc \ {p} : pc[q] \notin Changing
  BY DEF TrustInv
<1>2. pc[p] \notin Sent => \A q \in Proc : pc[q] \notin Sent
  BY <1>1, Elsewhere
<1> QED
  BY <1>1, <1>2 DEF TrustInv

LEMMA TrustFocusSend ==
  ASSUME VInv, TrustInv, NEW p \in Proc, FocusSend(p)
  PROVE  TrustInv'
<1> DEFINE c == r[p]
           plan == c.plan[1]
<1>1. pc[p] = "focusSend" /\ UNCHANGED <<layout, active, trust, older>>
  BY DEF FocusSend
<1>2. Set(p, "focusStore", c) /\ \E x \in Command : x.cmd = plan.cmd /\ x.arg = plan.arg /\ queue' = Append(queue, x)
  BY FocusSendIs
<1>3. PICK x \in Command : x.cmd = plan.cmd /\ x.arg = plan.arg /\ queue' = Append(queue, x)
  BY <1>2
<1>4. layout \in Layouts /\ active \in All(layout) /\ queue \in Seq(Command) /\ PlannedFrom(c.state, plan)
  BY <1>1 DEF VInv, CallAt
<1>5. pc[p] \in Changing /\ "focusStore" \in Sent
  BY <1>1 DEF Changing, Sent
<1>6. ASSUME trust, ~older, c.state.sig = layout
      PROVE  Leads(layout, active, queue', plan.next.groups)
  <2>1. Leads(layout, active, queue, plan.from)
    BY <1>1, <1>5, <1>6, OnlyOne DEF FollowsAt
  <2>2. \A g \in plan.from \cap All(layout), h \in All(layout) : Taken(layout, x, g, h) => h \in plan.next.groups
    <3>1. CASE plan.cmd = "surface" /\ plan.next.groups = plan.from
      BY <1>3, <3>1 DEF Taken
    <3>2. CASE plan.cmd = "focus" /\ plan.next.groups = After(layout, plan.from, plan.arg)
      BY <1>3, <3>2 DEF Taken, After
    <3> QED
      BY <1>4, <1>6, <3>1, <3>2 DEF PlannedFrom
  <2> DEFINE C == plan.next.groups
             B == plan.from
  <2> HIDE DEF C, B
  <2>3. Leads(layout, active, Append(queue, x), C)
    BY <1>4, <2>1, <2>2, LeadsGrows DEF C, B
  <2> QED
    BY <1>3, <2>3 DEF C
<1>7. trust' /\ ~older' => FollowsAt("focusStore", c, layout, active, queue')
  BY <1>1, <1>6 DEF FollowsAt
<1>8. trust' => \A q \in Proc \ {p} : pc[q] \notin Changing
  BY <1>1, <1>5, OnlyOne
<1> QED
  BY <1>1, <1>2, <1>5, <1>7, <1>8, OneCall

LEMMA TrustMoveSend ==
  ASSUME VInv, TrustInv, NEW p \in Proc, MoveSend(p)
  PROVE  TrustInv'
<1> DEFINE c == r[p]
           d == r'[p]
           G == Latest(c.state).groups
<1>1. /\ pc[p] = "moveSend" /\ pc'[p] = "settle"
      /\ IsState(c.state) /\ c.snap = c.state.sig /\ c.dir \in Direction
      /\ \E x \in Command : x.cmd = "move" /\ x.arg = c.dir /\ queue' = Append(queue, x)
      /\ d.plan # <<>> => AllNeighbors(c.snap, G, c.dir) /\ d.plan[1].next.groups = After(c.snap, G, c.dir)
  BY MoveSendIs
<1>2. PICK x \in Command : x.cmd = "move" /\ x.arg = c.dir /\ queue' = Append(queue, x)
  BY <1>1
<1>3. /\ UNCHANGED <<layout, active, older>>
      /\ trust' => trust /\ layout = c.state.sig /\ \A i \in DOMAIN queue : queue[i].cmd \notin {"move", "tearOut"}
      /\ \E e : Set(p, "settle", e)
  BY DEF MoveSend
<1>4. PICK e : Set(p, "settle", e)
  BY <1>3
<1>5. d = e
  BY <1>4, SetIs
<1>6. layout \in Layouts /\ active \in All(layout) /\ queue \in Seq(Command)
  BY DEF VInv
<1>7. pc[p] \in Changing /\ "settle" \in Sent
  BY <1>1 DEF Changing, Sent
<1>8. ASSUME trust', ~older', d.plan # <<>>
      PROVE  Surely(layout, active, queue', d.plan[1].next.groups)
  <2>1. Leads(layout, active, queue, G)
    BY <1>1, <1>3, <1>7, <1>8, OnlyOne DEF FollowsAt
  <2>2. AllNeighbors(layout, G, c.dir) /\ d.plan[1].next.groups = After(layout, G, c.dir)
    BY <1>1, <1>3, <1>8
  <2>3. \A g \in G \cap All(layout), h \in All(layout) : Taken(layout, x, g, h) => h \in After(layout, G, c.dir)
    BY <1>2, <2>2 DEF Taken, After, AllNeighbors
  <2>4. Safe(layout, x, G \cap All(layout))
    BY <1>2, <2>2 DEF Safe, AllNeighbors
  <2>5. \A i \in 1..Len(queue) : queue[i].cmd \notin {"move", "tearOut"}
    <3>1. DOMAIN queue = 1..Len(queue)
      BY <1>6
    <3> QED
      BY <3>1, <1>3, <1>8
  <2> DEFINE C == After(layout, G, c.dir)
  <2> HIDE DEF C, G
  <2>6. Surely(layout, active, Append(queue, x), C)
    BY <1>6, <2>1, <2>3, <2>4, <2>5, LeadsGrows DEF C
  <2> QED
    BY <1>2, <2>2, <2>6 DEF C
<1>9. trust' /\ ~older' => FollowsAt("settle", e, layout, active, queue')
  BY <1>5, <1>8 DEF FollowsAt
<1>10. trust' => \A q \in Proc \ {p} : pc[q] \notin Changing
  BY <1>3, <1>7, OnlyOne
<1> QED
  BY <1>3, <1>4, <1>7, <1>9, <1>10, OneCall

\* What a call writes becomes the belief.
LEMMA TrustWrites ==
  ASSUME VInv, TrustInv, NEW p \in Proc, FocusStore(p) \/ Save(p) \/ Refresh(p)
  PROVE  TrustInv'
<1>1. UNCHANGED <<layout, active, queue, trust, older>>
  BY DEF FocusStore, Save, Refresh, vscode
<1>2. layout \in Layouts /\ active \in All(layout) /\ queue \in Seq(Command)
  BY DEF VInv
<1>3. Leads(layout, active, queue, All(layout))
  BY <1>2, AlwaysLeads
<1>4. pc[p] \in {"focusStore", "save", "outSave", "outSettle"}
  BY FocusStoreIs, SaveIs, RefreshIs
<1>5. pc[p] \in Changing /\ "sleep" \notin Changing /\ "idle" \notin Changing
  BY <1>4 DEF Changing
<1>6. ASSUME trust, ~older
      PROVE  Leads(layout, active, queue, Believed(file', layout))
  <2>1. CASE FocusStore(p)
    <3> DEFINE st == r[p].state
               B == r[p].plan[1].next.groups
               new == file'
    <3>1. pc[p] = "focusStore" /\ IsState(new) /\ new.sig = st.sig /\ Latest(new).groups = B
      BY <2>1, FocusStoreIs
    <3>2. CASE st.sig = layout
      <4>1. Leads(layout, active, queue, B)
        BY <1>5, <1>6, <3>1, <3>2, OnlyOne DEF FollowsAt
      <4>2. new # NoState
        BY <3>1, VscodeAssumption DEF IsState
      <4>3. Believed(new, layout) = B
        BY <1>2, <3>1, <3>2, <4>2, BelievedIs
      <4> QED
        BY <4>1, <4>3
    <3>3. CASE st.sig # layout
      <4>1. Believed(new, layout) = All(layout)
        BY <1>2, <3>1, <3>3, BelievedIs
      <4> QED
        BY <1>3, <4>1
    <3> QED
      BY <3>2, <3>3
  <2>2. CASE Save(p)
    <3> DEFINE c == r[p]
               B == c.plan[1].next.groups
               new == file'
    <3>1. /\ pc[p] = "save" /\ IsState(new) /\ new.sig = c.snap
          /\ Latest(new).groups = IF c.plan = <<>> THEN All(c.snap) ELSE Within(c.snap, B)
      BY <2>2, SaveIs
    <3>2. CASE c.snap = layout /\ c.plan # <<>>
      <4>1. Leads(layout, active, queue, B)
        BY <1>5, <1>6, <3>1, <3>2, OnlyOne DEF FollowsAt
      <4>2. B \cap All(layout) \subseteq Within(layout, B)
        BY DEF Within
      <4>3. Leads(layout, active, queue, Within(layout, B))
        BY <1>2, <4>1, <4>2, LeadsInto
      <4>4. new # NoState
        BY <3>1, VscodeAssumption DEF IsState
      <4>5. Believed(new, layout) = Within(layout, B)
        BY <1>2, <3>1, <3>2, <4>4, BelievedIs
      <4> QED
        BY <4>3, <4>5
    <3>3. CASE c.snap # layout \/ c.plan = <<>>
      <4>1. CASE c.snap # layout
        BY <1>2, <1>3, <3>1, <4>1, BelievedIs
      <4>2. CASE c.snap = layout /\ c.plan = <<>>
        <5>1. new # NoState
          BY <3>1, VscodeAssumption DEF IsState
        <5>2. Believed(new, layout) = All(layout)
          BY <1>2, <3>1, <4>2, <5>1, BelievedIs
        <5> QED
          BY <1>3, <5>2
      <4> QED
        BY <3>3, <4>1, <4>2
    <3> QED
      BY <3>2, <3>3
  <2>3. CASE Refresh(p)
    <3> DEFINE new == file'
    <3>1. new = NoState \/ (IsState(new) /\ Latest(new).groups = All(new.sig))
      BY <2>3, RefreshIs
    <3>2. Believed(new, layout) = All(layout)
      <4>1. CASE new = NoState \/ new.sig # layout
        BY <1>2, <3>1, <4>1, BelievedIs
      <4>2. CASE new # NoState /\ new.sig = layout
        BY <1>2, <3>1, <4>2, BelievedIs
      <4> QED
        BY <4>1, <4>2
    <3> QED
      BY <1>3, <3>2
  <2> QED
    BY <2>1, <2>2, <2>3
<1>7. trust' => \A q \in Proc \ {p} : pc[q] \notin Changing
  BY <1>1, <1>5, OnlyOne
<1>8. \E s \in {"sleep", "idle"} : Set(p, s, NoRead)
  BY FocusStoreIs, SaveIs, RefreshIs
<1>9. PICK s \in {"sleep", "idle"} : Set(p, s, NoRead)
  BY <1>8
<1>10. FollowsAt(s, NoRead, layout, active, queue')
  BY <1>5, Elsewhere
<1> QED
  BY <1>1, <1>6, <1>7, <1>9, <1>10, OneCall

LEMMA TrustMoveOut ==
  ASSUME VInv, TrustInv, NEW p \in Proc, MoveOut(p)
  PROVE  TrustInv'
<1>1. Set(p, "outSettle", NoRead) /\ UNCHANGED <<layout, active>> /\ (trust' => ~Overlaps(p))
  BY DEF MoveOut
<1>2. "outSettle" \in Sent
  BY DEF Sent
<1>3. trust' => \A q \in Proc \ {p} : pc[q] \notin Changing
  BY <1>1 DEF Overlaps
<1>4. FollowsAt("outSettle", NoRead, layout, active, queue')
  BY DEF FollowsAt
<1> QED
  BY <1>1, <1>2, <1>3, <1>4, OneCall

LEMMA TrustLook ==
  ASSUME VInv, TrustInv, NEW p \in Proc, Look(p)
  PROVE  TrustInv'
<1> DEFINE next == [focusLook |-> "focus", moveLook |-> "move", outLook |-> "out",
                    settle |-> "save", outSettle |-> "outSave"]
           c == r[p]
           d == [c EXCEPT !.snap = layout]
<1>1. pc[p] \in DOMAIN next /\ Set(p, next[pc[p]], d) /\ UNCHANGED <<layout, active, queue, file, trust, older>>
  BY DEF Look, vscode
<1>2. pc[p] \in {"focusLook", "moveLook", "outLook", "settle", "outSettle"}
  BY <1>1
<1>3. CASE pc[p] \in {"focusLook", "moveLook", "outLook"}
  <2>1. \E s \in {"focus", "move", "out"} : Set(p, s, d)
    BY <1>1, <1>3
  <2>2. PICK s \in {"focus", "move", "out"} : Set(p, s, d)
    BY <2>1
  <2>3. pc[p] \notin Changing /\ s \notin Changing
    BY <1>3 DEF Changing
  <2> QED
    BY <1>1, <2>2, <2>3, QuietCall
<1>4. CASE pc[p] = "outSettle"
  <2>1. Set(p, "outSave", d)
    BY <1>1, <1>4
  <2>2. pc[p] \in Changing /\ "outSave" \in Sent
    BY <1>4 DEF Changing, Sent
  <2>3. trust' => \A q \in Proc \ {p} : pc[q] \notin Changing
    BY <1>1, <2>2, OnlyOne
  <2>4. FollowsAt("outSave", d, layout, active, queue')
    BY DEF FollowsAt
  <2> QED
    BY <1>1, <2>1, <2>2, <2>3, <2>4, OneCall
<1>5. CASE pc[p] = "settle"
  <2>1. Set(p, "save", d)
    BY <1>1, <1>5
  <2>2. pc[p] \in Changing /\ "save" \in Sent
    BY <1>5 DEF Changing, Sent
  <2>3. trust' => \A q \in Proc \ {p} : pc[q] \notin Changing
    BY <1>1, <2>2, OnlyOne
  <2>4. d.plan = c.plan
    <3>1. c = [dir |-> c.dir, snap |-> c.snap, state |-> c.state, asked |-> c.asked, plan |-> c.plan]
      BY DEF VInv, CallAt
    <3> HIDE DEF c
    <3> QED
      BY <3>1
  <2>5. ASSUME trust', ~older', c.plan # <<>>
        PROVE  Leads(layout, active, queue, c.plan[1].next.groups)
    <3>1. Surely(layout, active, queue, c.plan[1].next.groups)
      BY <1>1, <1>5, <2>2, <2>5, OnlyOne DEF FollowsAt
    <3> QED
      BY <3>1 DEF Surely, Leads
  <2> HIDE DEF d
  <2>6. trust' /\ ~older' => FollowsAt("save", d, layout, active, queue')
    BY <1>1, <2>4, <2>5 DEF FollowsAt
  <2> QED
    BY <1>1, <2>1, <2>2, <2>3, <2>6, OneCall
<1> QED
  BY <1>2, <1>3, <1>4, <1>5

LEMMA TrustDies ==
  ASSUME VInv, TrustInv, NEW p \in Proc, Dies(p)
  PROVE  TrustInv'
<1>1. /\ UNCHANGED <<layout, active, queue, file, older>> /\ Set(p, "idle", NoRead)
      /\ trust' = (trust /\ pc[p] \notin Changing \ {"focusSend", "moveSend"})
  BY DEF Dies, Ends, vscode
<1>2. "idle" \notin Changing /\ (pc[p] \in {"focusSend", "moveSend"} => pc[p] \in Changing /\ pc[p] \notin Sent)
  BY DEF Changing, Sent
<1>3. FollowsAt("idle", NoRead, layout, active, queue')
  BY <1>2, Elsewhere
<1>4. CASE ~trust'
  BY <1>4 DEF TrustInv
<1>5. CASE trust' /\ pc[p] \in {"focusSend", "moveSend"}
  <2>1. trust
    BY <1>1, <1>5
  <2>2. \A q \in Proc \ {p} : pc[q] \notin Changing
    BY <1>2, <1>5, <2>1, OnlyOne
  <2>3. ~older' => Leads(layout, active, queue', Believed(file', layout))
    BY <1>1, <1>2, <1>5, <2>1, OnlyOne
  <2> QED
    BY <1>1, <1>3, <2>2, <2>3, OneCall
<1>6. CASE trust' /\ pc[p] \notin {"focusSend", "moveSend"}
  <2>1. trust /\ pc[p] \notin Changing
    BY <1>1, <1>6
  <2>2. /\ \A q, o \in Proc : pc[q] \in Changing /\ pc[o] \in Changing => q = o
        /\ ~older => /\ (\A q \in Proc : pc[q] \notin Sent) => Leads(layout, active, queue, Believed(file, layout))
                     /\ \A q \in Proc : FollowsAt(pc[q], r[q], layout, active, queue)
    BY <2>1 DEF TrustInv
  <2>3. /\ pc'[p] = "idle" /\ r'[p] = NoRead
        /\ \A q \in Proc \ {p} : pc'[q] = pc[q] /\ r'[q] = r[q]
    BY <1>1, SetIs
  <2>4. \A q, o \in Proc : pc'[q] \in Changing /\ pc'[o] \in Changing => q = o
    BY <1>2, <2>2, <2>3
  <2>5. ASSUME ~older', NEW q \in Proc PROVE FollowsAt(pc'[q], r'[q], layout', active', queue')
    <3>1. CASE q = p
      BY <1>2, <2>3, <3>1, Elsewhere
    <3>2. CASE q # p
      BY <1>1, <2>2, <2>3, <2>5, <3>2
    <3> QED
      BY <3>1, <3>2
  <2>6. ASSUME ~older', \A q \in Proc : pc'[q] \notin Sent PROVE Leads(layout', active', queue', Believed(file', layout'))
    <3>1. pc[p] \notin Sent
      BY <2>1, Elsewhere
    <3>2. \A q \in Proc : pc[q] \notin Sent
      BY <2>3, <2>6, <3>1
    <3> QED
      BY <1>1, <2>2, <2>6, <3>2
  <2> QED
    BY <2>4, <2>5, <2>6 DEF TrustInv
<1> QED
  BY <1>4, <1>5, <1>6

\* A layout no call has seen and the file does not speak of.
LEMMA NotRemembered ==
  ASSUME VInv, NEW l \in Layouts, ~Remembered(l), NEW a \in All(l), NEW qu \in Seq(Command)
  PROVE  /\ Leads(l, a, qu, Believed(file, l))
         /\ \A p \in Proc : pc[p] # "settle" \/ r[p].plan = <<>> => FollowsAt(pc[p], r[p], l, a, qu)
<1>1. file = NoState \/ (IsState(file) /\ file.sig # l)
  BY DEF VInv, Remembered
<1>2. Leads(l, a, qu, Believed(file, l))
  BY <1>1, BelievedIs, AlwaysLeads
<1>3. ASSUME NEW p \in Proc, pc[p] # "settle" \/ r[p].plan = <<>> PROVE FollowsAt(pc[p], r[p], l, a, qu)
  <2>1. CallAt(pc[p], r[p]) /\ r[p].snap # l /\ (r[p].state = NoState \/ r[p].state.sig # l)
    BY DEF VInv, Remembered
  <2>2. pc[p] \in {"focusSend", "focusStore", "moveSend"} => r[p].state # NoState
    BY <2>1, VscodeAssumption DEF CallAt, IsState
  <2> QED
    BY <1>3, <2>1, <2>2 DEF FollowsAt
<1> QED
  BY <1>2, <1>3

LEMMA TrustExecutes ==
  ASSUME VInv, TrustInv, Executes, ~GroupsClose
  PROVE  TrustInv'
<1> DEFINE c == Head(queue)
<1>1. /\ VInv' /\ queue # <<>> /\ queue' = Tail(queue)
      /\ layout' = layout => Taken(layout, c, active, active')
      /\ c.cmd # "tearOut" /\ (c.cmd = "move" => neighbor[layout][active][c.arg] # 0) => layout' = layout
  BY ExecutesIs
<1>2. /\ UNCHANGED <<file, pc, r, older>>
      /\ trust' = (trust /\ (layout' = layout \/ ~Remembered(layout')))
  BY DEF Executes
<1>3. layout \in Layouts /\ active \in All(layout) /\ queue \in Seq(Command)
  BY DEF VInv
<1>4. layout' \in Layouts /\ active' \in All(layout') /\ queue' \in Seq(Command)
  BY <1>1 DEF VInv
<1> HIDE DEF c
<1>5. SUFFICES ASSUME trust'
               PROVE  /\ \A p, q \in Proc : pc[p] \in Changing /\ pc[q] \in Changing => p = q
                      /\ ~older => /\ (\A p \in Proc : pc[p] \notin Sent) => Leads(layout', active', queue', Believed(file, layout'))
                                   /\ \A p \in Proc : FollowsAt(pc[p], r[p], layout', active', queue')
  BY <1>2 DEF TrustInv
<1>6. trust /\ (layout' = layout \/ ~Remembered(layout'))
  BY <1>2, <1>5
<1>7. /\ \A p, q \in Proc : pc[p] \in Changing /\ pc[q] \in Changing => p = q
      /\ ~older => /\ (\A p \in Proc : pc[p] \notin Sent) => Leads(layout, active, queue, Believed(file, layout))
                   /\ \A p \in Proc : FollowsAt(pc[p], r[p], layout, active, queue)
  BY <1>6 DEF TrustInv
<1>8. CASE layout' = layout
  <2>1. active' \in All(layout) /\ Taken(layout, Head(queue), active, active')
    BY <1>1, <1>4, <1>8 DEF c
  <2>2. /\ \A B : Leads(layout, active, queue, B) => Leads(layout, active', queue', B)
        /\ \A B : Surely(layout, active, queue, B) => Surely(layout, active', queue', B)
    BY <1>1, <1>3, <2>1, LeadsShrinks
  <2>3. ASSUME NEW p \in Proc, FollowsAt(pc[p], r[p], layout, active, queue)
        PROVE  FollowsAt(pc[p], r[p], layout, active', queue')
    BY <2>2, <2>3 DEF FollowsAt
  <2> QED
    BY <1>7, <1>8, <2>2, <2>3
<1>9. CASE layout' # layout
  <2>1. ~Remembered(layout')
    BY <1>6, <1>9
  <2>2. Leads(layout', active', queue', Believed(file, layout'))
    BY <1>4, <2>1, NotRemembered
  <2>3. ASSUME ~older, NEW p \in Proc
        PROVE  FollowsAt(pc[p], r[p], layout', active', queue')
    <3>1. CASE pc[p] # "settle" \/ r[p].plan = <<>>
      BY <1>4, <2>1, <3>1, NotRemembered
    <3>2. CASE pc[p] = "settle" /\ r[p].plan # <<>>
      <4> DEFINE B == r[p].plan[1].next.groups
      <4>1. Surely(layout, active, queue, B)
        BY <1>7, <2>3, <3>2 DEF FollowsAt
      <4>2. \E b \in All(layout) : Taken(layout, Head(queue), active, b)
        <5> DEFINE n == neighbor[layout][active][Head(queue).arg]
        <5>1. Head(queue) \in Command
          BY <1>1, <1>3
        <5>2. Head(queue).cmd \in {"focus", "move"} => n \in All(layout) \cup {0}
          BY <1>3, <5>1, NeighborIsGroup DEF Command
        <5>3. CASE Head(queue).cmd \in {"focus", "move"} /\ n # 0
          BY <1>3, <5>2, <5>3 DEF Taken
        <5>4. CASE ~(Head(queue).cmd \in {"focus", "move"} /\ n # 0)
          BY <1>3, <5>4 DEF Taken
        <5> QED
          BY <5>3, <5>4
      <4>3. PICK b \in All(layout) : Taken(layout, Head(queue), active, b)
        BY <4>2
      <4>4. c.cmd # "tearOut" /\ (c.cmd = "move" => neighbor[layout][active][c.arg] # 0)
        BY <1>1, <1>3, <4>1, <4>3, LeadsShrinks DEF c
      <4> QED
        BY <1>1, <1>9, <4>4
    <3> QED
      BY <3>1, <3>2
  <2> QED
    BY <1>7, <2>2, <2>3
<1> QED
  BY <1>8, <1>9

LEMMA TrustUser ==
  ASSUME VInv, TrustInv, UserClicks \/ UserSplits
  PROVE  TrustInv'
<1>1. CASE UserClicks
  BY <1>1 DEF UserClicks, TrustInv
<1>2. CASE UserSplits
  <2>1. /\ layout' \in Layouts /\ active' \in All(layout') /\ UNCHANGED <<queue, file, pc, r, older>>
        /\ trust' = (queue = <<>> /\ (\A p \in Proc : pc[p] = "idle") /\ ~Remembered(layout'))
    BY <1>2 DEF UserSplits
  <2>2. SUFFICES ASSUME trust' PROVE TrustInv'
    BY DEF TrustInv
  <2>3. (\A p \in Proc : pc[p] = "idle") /\ ~Remembered(layout') /\ queue \in Seq(Command)
    BY <2>1, <2>2 DEF VInv
  <2>4. "idle" \notin Changing
    BY DEF Changing
  <2>5. Leads(layout', active', queue, Believed(file, layout'))
    BY <2>1, <2>3, NotRemembered
  <2>6. \A p \in Proc : FollowsAt(pc[p], r[p], layout', active', queue)
    BY <2>3, <2>4, Elsewhere
  <2> QED
    BY <2>1, <2>3, <2>4, <2>5, <2>6 DEF TrustInv
<1> QED
  BY <1>1, <1>2

LEMMA TrustNext ==
  ASSUME VInv, TrustInv, [Next]_vars, ~GroupsClose
  PROVE  TrustInv'
<1>1. ASSUME NEW p \in Proc, Call(p) PROVE TrustInv'
  BY <1>1, TrustQuiet, TrustLook, TrustFocus, TrustFocusSend, TrustWrites, TrustMove, TrustMoveSend, TrustMoveOut, TrustDies DEF Call
<1>2. CASE UNCHANGED vars
  BY <1>2 DEF vars, vscode, TrustInv
<1> QED
  BY <1>1, <1>2, TrustExecutes, TrustUser DEF Next

LEMMA TrustSays ==
  ASSUME VInv, TrustInv
  PROVE  ActiveIsPossible
<1>1. SUFFICES ASSUME trust, ~older, Settled PROVE active \in Latest(Normal(file, layout)).groups
  BY DEF ActiveIsPossible
<1>2. queue = <<>> /\ \A p \in Proc : pc[p] \notin Sent
  BY <1>1, Elsewhere DEF Settled
<1>3. Leads(layout, active, <<>>, Believed(file, layout))
  BY <1>1, <1>2 DEF TrustInv
<1> QED
  BY <1>3, NowThere DEF Believed
-----------------------------------------------------------------------------
(* Pressing one direction *)

LEMMA NoStreakIs ==
  ASSUME streak' = NoStreak \/ (StreakInv /\ streak' = streak /\ streak.n = 0)
  PROVE  StreakInv'
<1>1. CASE streak' = NoStreak
  BY <1>1 DEF StreakInv, NoStreak
<1>2. CASE StreakInv /\ streak' = streak /\ streak.n = 0
  BY <1>2 DEF StreakInv
<1> QED
  BY <1>1, <1>2

\* A streak goes on while the file says the same and nobody moves.
LEMMA StreakCall ==
  ASSUME VInv, StreakInv, NEW p \in Proc, NEW s, NEW c, Set(p, s, c), UNCHANGED <<layout, streak>>,
         s \in Moving => pc[p] \in Moving,
         file # NoState /\ file.pending # <<>> =>
           file' # NoState /\ file'.sig = file.sig /\ file'.pending # <<>> /\ file'.pending[1].groups = file.pending[1].groups,
         streak.n > 0 /\ s \in {"focusSend", "focusStore"} /\ c.state.sig = layout /\ c.state.pending = <<>> =>
           c.state.groups = file.pending[1].groups
  PROVE  StreakInv'
<1>1. /\ pc'[p] = s /\ r'[p] = c
      /\ \A q \in Proc \ {p} : pc'[q] = pc[q] /\ r'[q] = r[q]
  BY SetIs
<1>2. streak = [dir |-> streak.dir, n |-> streak.n] /\ streak.n \in Nat
  BY DEF StreakInv
<1>3. CASE streak.n = 0
  BY <1>3, NoStreakIs
<1>4. CASE streak.n > 0
  <2>1. /\ streak.dir \in Direction /\ streak.n < Cardinality(All(layout))
        /\ file # NoState /\ file.sig = layout /\ file.pending # <<>>
        /\ Advanced(layout, file.pending[1].groups, streak.dir, streak.n)
        /\ \A q \in Proc : pc[q] \notin Moving
        /\ \A q \in Proc : pc[q] \in {"focusSend", "focusStore"} /\ r[q].state.sig = layout /\ r[q].state.pending = <<>> =>
             r[q].state.groups = file.pending[1].groups
    BY <1>4 DEF StreakInv
  <2>2. \A q \in Proc : pc'[q] \notin Moving
    BY <1>1, <2>1
  <2>3. ASSUME NEW q \in Proc, pc'[q] \in {"focusSend", "focusStore"}, r'[q].state.sig = layout, r'[q].state.pending = <<>>
        PROVE  r'[q].state.groups = file'.pending[1].groups
    <3>1. CASE q = p
      BY <1>1, <1>4, <2>1, <2>3, <3>1
    <3>2. CASE q # p
      BY <1>1, <2>1, <2>3, <3>2
    <3> QED
      BY <3>1, <3>2
  <2>4. file' # NoState /\ file'.sig = layout /\ file'.pending # <<>> /\ file'.pending[1].groups = file.pending[1].groups
    BY <2>1
  <2> QED
    BY <1>2, <2>1, <2>2, <2>3, <2>4 DEF StreakInv
<1> QED
  BY <1>2, <1>3, <1>4

\* Nobody moves during a streak.
LEMMA StreakMoves ==
  ASSUME StreakInv, NEW p \in Proc, pc[p] \in Moving, UNCHANGED streak
  PROVE  StreakInv'
<1>1. streak.n = 0
  BY DEF StreakInv
<1> QED
  BY <1>1, NoStreakIs

LEMMA StreakQuiet ==
  ASSUME VInv, StreakInv, NEW p \in Proc, Begin(p) \/ AskFocus(p) \/ Decide(p) \/ Wake(p) \/ Look(p) \/ FocusSend(p) \/ Dies(p)
  PROVE  StreakInv'
<1>0. {"idle", "canFocus", "decide", "focusLook", "focus", "focusStore"} \cap Moving = {}
  BY DEF Moving
<1>1. CASE Begin(p)
  <2>1. PICK dir \in Direction, first \in {"canFocus", "decide"} :
          Set(p, first, [NoRead EXCEPT !.dir = dir, !.snap = layout])
    BY <1>1 DEF Begin
  <2>2. UNCHANGED <<layout, streak, file>>
    BY <1>1 DEF Begin, vscode
  <2> QED
    BY <1>0, <2>1, <2>2, StreakCall
<1>2. CASE AskFocus(p)
  <2>1. UNCHANGED <<layout, file>>
    BY <1>2 DEF AskFocus, vscode
  <2>2. \/ streak' = NoStreak
        \/ (\E c : Set(p, "focusLook", c)) /\ UNCHANGED streak
    BY <1>2 DEF AskFocus
  <2>3. CASE streak' = NoStreak
    BY <2>3, NoStreakIs
  <2>4. CASE (\E c : Set(p, "focusLook", c)) /\ UNCHANGED streak
    <3>1. PICK c : Set(p, "focusLook", c)
      BY <2>4
    <3> QED
      BY <1>0, <2>1, <2>4, <3>1, StreakCall
  <2> QED
    BY <2>2, <2>3, <2>4
<1>3. CASE Decide(p)
  BY <1>3, NoStreakIs DEF Decide
<1>4. CASE Wake(p)
  <2>1. UNCHANGED <<layout, streak>> /\ Set(p, "idle", NoRead)
    BY <1>4 DEF Wake, Ends, vscode
  <2>2. file # NoState /\ file.pending # <<>> =>
           file' # NoState /\ file'.sig = file.sig /\ file'.pending # <<>> /\ file'.pending[1].groups = file.pending[1].groups
    BY <1>4, WakeIs
  <2> QED
    BY <1>0, <2>1, <2>2, StreakCall
<1>5. CASE Look(p)
  <2> DEFINE next == [focusLook |-> "focus", moveLook |-> "move", outLook |-> "out",
                    settle |-> "save", outSettle |-> "outSave"]
             d == [r[p] EXCEPT !.snap = layout]
  <2>1. pc[p] \in DOMAIN next /\ Set(p, next[pc[p]], d) /\ UNCHANGED <<layout, streak, file>>
    BY <1>5 DEF Look, vscode
  <2>2. pc[p] \in {"focusLook", "moveLook", "outLook", "settle", "outSettle"}
    BY <2>1
  <2>3. CASE pc[p] = "focusLook"
    <3>1. Set(p, "focus", d)
      BY <2>1, <2>3
    <3> QED
      BY <1>0, <2>1, <3>1, StreakCall
  <2>4. CASE pc[p] # "focusLook"
    <3>1. pc[p] \in Moving
      BY <2>2, <2>4 DEF Moving
    <3> QED
      BY <2>1, <3>1, StreakMoves
  <2> QED
    BY <2>3, <2>4
<1>6. CASE FocusSend(p)
  <2>1. UNCHANGED <<layout, streak, file>> /\ Set(p, "focusStore", r[p]) /\ pc[p] = "focusSend"
    BY <1>6, FocusSendIs DEF FocusSend
  <2>2. streak.n > 0 /\ r[p].state.sig = layout /\ r[p].state.pending = <<>> => r[p].state.groups = file.pending[1].groups
    BY <2>1 DEF StreakInv
  <2> QED
    BY <1>0, <2>1, <2>2, StreakCall
<1>7. CASE Dies(p)
  <2>1. UNCHANGED <<layout, streak, file>> /\ Set(p, "idle", NoRead)
    BY <1>7 DEF Dies, Ends, vscode
  <2> QED
    BY <1>0, <2>1, StreakCall
<1> QED
  BY <1>1, <1>2, <1>3, <1>4, <1>5, <1>6, <1>7

LEMMA StreakFocus ==
  ASSUME VInv, StreakInv, NEW p \in Proc, Focus(p)
  PROVE  StreakInv'
<1> DEFINE c == r[p]
           st == Normal(file, c.snap)
           plan == FocusPlan(c.snap, st, c.dir)
           d == [NoRead EXCEPT !.state = st, !.plan = plan]
<1>1. /\ pc[p] = "focus" /\ UNCHANGED <<layout, file, streak>>
      /\ Set(p, "idle", NoRead) \/ Set(p, "focusSend", d)
  BY DEF Focus, Ends, vscode
<1>2. {"idle", "focusSend"} \cap Moving = {}
  BY DEF Moving
<1>3. CASE Set(p, "idle", NoRead)
  BY <1>1, <1>2, <1>3, StreakCall
<1>4. CASE Set(p, "focusSend", d)
  <2>1. c.snap \in Layouts /\ (file = NoState \/ IsState(file))
    BY <1>1 DEF VInv, CallAt, Knowing
  <2>2. d.state = st
    <3> HIDE DEF st, plan
    <3> DEFINE e == [NoRead EXCEPT !.state = st]
    <3>1. e = [dir |-> "none", snap |-> <<>>, state |-> st, asked |-> NoState, plan |-> <<>>]
      BY DEF NoRead
    <3>2. [e EXCEPT !.plan = plan] = [dir |-> "none", snap |-> <<>>, state |-> st, asked |-> NoState, plan |-> plan]
      <4> HIDE DEF e
      <4> QED
        BY <3>1
    <3> QED
      BY <3>2
  <2>3. ASSUME streak.n > 0, st.sig = layout, st.pending = <<>>
        PROVE  st.groups = file.pending[1].groups
    <3>1. file # NoState /\ file.sig = layout /\ file.pending # <<>>
      BY <2>3 DEF StreakInv
    <3>2. c.snap = layout
      BY <2>1, <2>3, NormalIs
    <3> QED
      BY <2>1, <2>3, <3>1, <3>2, NormalIs
  <2> HIDE DEF d, st
  <2>4. streak.n > 0 /\ d.state.sig = layout /\ d.state.pending = <<>> => d.state.groups = file.pending[1].groups
    BY <2>2, <2>3
  <2> QED
    BY <1>1, <1>2, <1>4, <2>4, StreakCall
<1> QED
  BY <1>1, <1>3, <1>4

LEMMA StreakStore ==
  ASSUME VInv, StreakInv, NEW p \in Proc, FocusStore(p)
  PROVE  StreakInv'
<1> DEFINE st == r[p].state
           plan == r[p].plan[1]
           dir == plan.arg
           n == IF streak.dir = dir THEN streak.n ELSE 0
           counts == plan.cmd = "focus" /\ Alone(p) /\ st.pending = <<>> /\ st.sig = layout
           G == plan.from
           B == After(layout, G, dir)
           new == file'
<1>1. streak' = NoStreak \/ (counts /\ streak' = [dir |-> dir, n |-> IF streak.dir = dir THEN streak.n + 1 ELSE 1])
  BY DEF FocusStore
<1>2. /\ pc[p] = "focusStore" /\ IsState(st) /\ PlannedFrom(st, plan) /\ Set(p, "sleep", NoRead) /\ VInv'
      /\ IsState(new) /\ new.sig = st.sig /\ new.pending # <<>> /\ new.pending[1].groups = plan.next.groups
  BY FocusStoreIs
<1>3. UNCHANGED layout /\ layout \in Layouts
  BY DEF FocusStore, vscode, VInv
<1>4. CASE streak' = NoStreak
  BY <1>4, NoStreakIs
<1>5. CASE counts /\ streak' = [dir |-> dir, n |-> IF streak.dir = dir THEN streak.n + 1 ELSE 1]
  <2>1. /\ plan.cmd = "focus" /\ st.pending = <<>> /\ st.sig = layout /\ \A q \in Proc \ {p} : pc[q] = "idle"
    BY <1>5 DEF Alone
  <2>2. /\ G \in Groups(layout) /\ G = st.groups /\ dir \in Direction /\ AnyNeighbor(layout, G, dir)
        /\ plan.next.groups = B
    BY <1>2, <2>1 DEF PlannedFrom
  <2>3. n \in Nat /\ streak' = [dir |-> dir, n |-> n + 1]
    BY <1>5 DEF StreakInv
  <2>4. n = 0 \/ Advanced(layout, G, dir, n)
    <3>1. CASE n = 0
      BY <3>1
    <3>2. CASE n # 0
      <4>1. streak.n > 0 /\ streak.dir = dir /\ n = streak.n
        BY <2>3, <3>2
      <4>2. /\ Advanced(layout, file.pending[1].groups, streak.dir, streak.n)
            /\ st.groups = file.pending[1].groups
        BY <1>2, <2>1, <4>1 DEF StreakInv
      <4> QED
        BY <2>2, <4>1, <4>2
    <3> QED
      BY <3>1, <3>2
  <2> HIDE DEF G, B, n, dir, st, plan
  <2>5. Advanced(layout, B, dir, n + 1) /\ n + 1 < Cardinality(All(layout))
    BY <1>3, <2>2, <2>3, <2>4, Advances DEF B
  <2>6. /\ pc'[p] = "sleep" /\ \A q \in Proc \ {p} : pc'[q] = pc[q]
    BY <1>2, SetIs
  <2>7. \A q \in Proc : pc'[q] \in {"idle", "sleep"}
    BY <2>1, <2>6
  <2>8. \A q \in Proc : pc'[q] \notin Moving /\ pc'[q] \notin {"focusSend", "focusStore"}
    BY <2>7 DEF Moving
  <2>9. new # NoState
    BY <1>2, VscodeAssumption DEF IsState
  <2>10. /\ streak'.dir = dir /\ streak'.n = n + 1 /\ streak'.n \in Nat /\ streak' = [dir |-> streak'.dir, n |-> streak'.n]
    BY <2>3
  <2>11. /\ streak'.dir \in Direction /\ streak'.n < Cardinality(All(layout'))
         /\ new # NoState /\ new.sig = layout' /\ new.pending # <<>>
         /\ Advanced(layout', new.pending[1].groups, streak'.dir, streak'.n)
    BY <1>2, <1>3, <2>1, <2>2, <2>5, <2>9, <2>10
  <2> HIDE DEF new
  <2> QED
    BY <2>8, <2>10, <2>11 DEF StreakInv, new
<1> QED
  BY <1>1, <1>4, <1>5

LEMMA StreakVscode ==
  ASSUME VInv, StreakInv, Executes
  PROVE  StreakInv'
<1>1. streak' = IF layout' = layout THEN streak ELSE NoStreak
  BY DEF Executes
<1>2. UNCHANGED <<file, pc, r>>
  BY DEF Executes
<1>3. CASE layout' = layout
  BY <1>1, <1>2, <1>3 DEF StreakInv
<1>4. CASE layout' # layout
  BY <1>1, <1>4, NoStreakIs
<1> QED
  BY <1>3, <1>4

LEMMA StreakNext ==
  ASSUME VInv, StreakInv, [Next]_vars
  PROVE  StreakInv'
<1>1. ASSUME NEW p \in Proc, Call(p) PROVE StreakInv'
  <2>1. CASE Move(p) \/ MoveSend(p) \/ Save(p) \/ MoveOut(p) \/ Refresh(p)
    <3>1. UNCHANGED streak
      BY <2>1 DEF Move, MoveSend, Save, MoveOut, Refresh
    <3>2. pc[p] \in {"move", "moveSend", "save", "out", "outSave", "outSettle"}
      BY <2>1 DEF Move, MoveSend, Save, MoveOut, Refresh
    <3>3. pc[p] \in Moving
      BY <3>2 DEF Moving
    <3> QED
      BY <3>1, <3>3, StreakMoves
  <2> QED
    BY <1>1, <2>1, StreakQuiet, StreakFocus, StreakStore DEF Call
<1>2. CASE UNCHANGED vars
  BY <1>2 DEF vars, vscode, StreakInv
<1>3. CASE UserClicks \/ UserSplits
  BY <1>3, NoStreakIs DEF UserClicks, UserSplits, Acts
<1> QED
  BY <1>1, <1>2, <1>3, StreakVscode DEF Next

LEMMA StreakInit == Init => StreakInv
BY DEF Init, StreakInv

-----------------------------------------------------------------------------
(* Theorems *)

LEMMA VscodeTypes == Spec => []VInv
<1>1. VInv /\ [Next]_vars => VInv'
  BY VNext
<1> QED
  BY VInit, <1>1, PTL DEF Spec

\* While VS Code keeps its groups, the group that is active is among those the
\* belief allows, once VS Code has done what it was sent: through calls that
\* read, send and write in any order, calls that die, splits, and commands of
\* which VS Code has carried out only some.
THEOREM BeliefHoldsActive ==
  ASSUME ~GroupsClose
  PROVE  Spec => []ActiveIsPossible
<1>1. VInv /\ TrustInv /\ [Next]_vars => TrustInv'
  BY TrustNext
<1>2. VInv /\ TrustInv => ActiveIsPossible
  BY TrustSays
<1> QED
  BY VscodeTypes, TrustInit, <1>1, <1>2, PTL DEF Spec

\* Pressing one direction leaves the window after fewer moves inside it than it
\* has groups, in every layout, whatever else happens between the presses.
THEOREM PressesReachEdge == Spec => []EdgeIsReached
<1>1. VInv /\ StreakInv /\ [Next]_vars => StreakInv'
  BY StreakNext
<1>2. StreakInv => EdgeIsReached
  BY DEF StreakInv, EdgeIsReached
<1> QED
  BY VscodeTypes, StreakInit, <1>1, <1>2, PTL DEF Spec

====
