---- MODULE Layouts_proofs ----
(***************************************************************************)
(* Proofs about windows on a strip and about panes in splits: niri's torn- *)
(* out window, and the frames of Emacs.                                    *)
(*                                                                         *)
(* A strip (PlacedSo): where the torn-out window and its source are at     *)
(* every step, as long as nobody disturbs them.  A strip is Tidy: each     *)
(* window has one column and one tile, so that it is where it is found     *)
(* (Found), and every change of the strip is told by where it leaves each  *)
(* window.  What another call or a closing window does elsewhere moves     *)
(* whole columns; what it does in the source's column shows in the         *)
(* source's row (RowTells, MovedRowTells), and then the placement counts   *)
(* as disturbed.                                                           *)
(*                                                                         *)
(* Splits (EInv): a frame is a layout of buffers that shows its selected   *)
(* window's buffer, and a layout is told by which panes it shows before    *)
(* and after a pane is taken out, split off or swapped (WithoutKeeps,      *)
(* SplitKeeps, SwapKeeps).  As long as the user keeps away, what a call    *)
(* has looked at still holds when it edits: EditInv.                       *)
(***************************************************************************)
EXTENDS WmBackends, EmacsFrames, SequenceTheorems, FiniteSetTheorems, TLAPS

-----------------------------------------------------------------------------
(* Windows on a strip *)

IsStrip(st) == st \in Seq(Seq(WmWindow)) /\ Tidy(st)
At(st, w, c, t) == c \in 1..Len(st) /\ t \in 1..Len(st[c]) /\ st[c][t] = w
Absent(st, w) == \A d, u : ~At(st, w, d, u)

\* What is removed and inserted, element by element.
LEMMA Removed ==
  ASSUME NEW X, NEW s \in Seq(X), NEW i \in 1..Len(s)
  PROVE  /\ RemoveAt(s, i) \in Seq(X) /\ Len(RemoveAt(s, i)) = Len(s) - 1
         /\ \A k \in 1..Len(s) - 1 : RemoveAt(s, i)[k] = s[IF k < i THEN k ELSE k + 1]
<1> DEFINE a == SubSeq(s, 1, i - 1)  b == SubSeq(s, i + 1, Len(s))
<1>1. Len(s) \in Nat /\ i \in Nat
  OBVIOUS
<1>2. a \in Seq(X) /\ Len(a) = i - 1 /\ \A k \in 1..i - 1 : a[k] = s[k]
  BY <1>1, SubSeqProperties
<1>3. b \in Seq(X) /\ Len(b) = Len(s) - i /\ \A k \in 1..Len(s) - i : b[k] = s[i + k]
  BY <1>1, SubSeqProperties
<1> HIDE DEF a, b
<1>4. /\ a \o b \in Seq(X) /\ Len(a \o b) = Len(s) - 1
      /\ \A k \in 1..Len(s) - 1 : (a \o b)[k] = IF k <= i - 1 THEN a[k] ELSE b[k - (i - 1)]
  <2>1. /\ a \o b \in Seq(X) /\ Len(a \o b) = Len(a) + Len(b)
        /\ \A k \in 1..Len(a) + Len(b) : (a \o b)[k] = IF k <= Len(a) THEN a[k] ELSE b[k - Len(a)]
    BY <1>2, <1>3, ConcatProperties, Zenon
  <2>2. Len(a) + Len(b) = Len(s) - 1
    BY <1>1, <1>2, <1>3
  <2> QED
    BY <1>2, <2>1, <2>2, Zenon
<1>5. RemoveAt(s, i) = a \o b
  BY DEF RemoveAt, a, b
<1>6. ASSUME NEW k \in 1..Len(s) - 1 PROVE (a \o b)[k] = s[IF k < i THEN k ELSE k + 1]
  <2>1. CASE k < i
    BY <1>1, <1>2, <1>4, <2>1
  <2>2. CASE ~(k < i)
    <3>1. k - (i - 1) \in 1..Len(s) - i /\ i + (k - (i - 1)) = k + 1
      BY <1>1, <2>2
    <3> QED
      BY <1>1, <1>3, <1>4, <2>2, <3>1
  <2> QED
    BY <2>1, <2>2
<1> QED
  BY <1>4, <1>5, <1>6

\* And what is inserted.
LEMMA Inserted ==
  ASSUME NEW X, NEW s \in Seq(X), NEW e \in X, NEW i \in Nat, 1 <= i, i <= Len(s) + 1
  PROVE  /\ InsertAt(s, i, e) \in Seq(X) /\ Len(InsertAt(s, i, e)) = Len(s) + 1
         /\ \A k \in 1..Len(s) + 1 :
              InsertAt(s, i, e)[k] = IF k < i THEN s[k] ELSE IF k = i THEN e ELSE s[k - 1]
<1> DEFINE a == SubSeq(s, 1, i - 1)  b == SubSeq(s, i, Len(s))
<1>1. Len(s) \in Nat /\ i \in Nat
  OBVIOUS
<1>2. a \in Seq(X) /\ Len(a) = i - 1 /\ \A k \in 1..i - 1 : a[k] = s[k]
  BY <1>1, SubSeqProperties
<1>3. b \in Seq(X) /\ Len(b) = Len(s) - i + 1 /\ \A k \in 1..Len(s) - i + 1 : b[k] = s[i + k - 1]
  BY <1>1, SubSeqProperties
<1> DEFINE m == a \o <<e>>
<1> HIDE DEF a, b
<1>4. <<e>> \in Seq(X) /\ Len(<<e>>) = 1 /\ <<e>>[1] = e
  OBVIOUS
<1>5. m \in Seq(X) /\ Len(m) = i /\ \A k \in 1..i : m[k] = IF k <= i - 1 THEN a[k] ELSE <<e>>[k - (i - 1)]
  BY <1>1, <1>2, <1>4, ConcatProperties
<1> HIDE DEF m
<1>6. /\ m \o b \in Seq(X) /\ Len(m \o b) = Len(s) + 1
      /\ \A k \in 1..Len(s) + 1 : (m \o b)[k] = IF k <= i THEN m[k] ELSE b[k - i]
  <2>1. /\ m \o b \in Seq(X) /\ Len(m \o b) = Len(m) + Len(b)
        /\ \A k \in 1..Len(m) + Len(b) : (m \o b)[k] = IF k <= Len(m) THEN m[k] ELSE b[k - Len(m)]
    BY <1>3, <1>5, ConcatProperties, Zenon
  <2>2. Len(m) + Len(b) = Len(s) + 1
    BY <1>1, <1>3, <1>5
  <2> QED
    BY <1>5, <2>1, <2>2, Zenon
<1>7. InsertAt(s, i, e) = m \o b
  BY DEF InsertAt, a, b, m
<1>8. ASSUME NEW k \in 1..Len(s) + 1
      PROVE  (m \o b)[k] = IF k < i THEN s[k] ELSE IF k = i THEN e ELSE s[k - 1]
  <2>1. CASE k < i
    BY <1>1, <1>2, <1>5, <1>6, <2>1
  <2>2. CASE k = i
    BY <1>1, <1>4, <1>5, <1>6, <2>2
  <2>3. CASE k > i
    <3>1. k - i \in 1..Len(s) - i + 1 /\ i + (k - i) - 1 = k - 1
      BY <1>1, <2>3
    <3> QED
      BY <1>1, <1>3, <1>6, <2>3, <3>1
  <2>4. k < i \/ k = i \/ k > i
    BY <1>1
  <2>5. k > i => ~(k < i) /\ k # i
    BY <1>1
  <2>6. k = i => ~(k < i)
    BY <1>1
  <2> QED
    BY <2>1, <2>2, <2>3, <2>4, <2>5, <2>6, Zenon
<1> QED
  BY <1>6, <1>7, <1>8

\* Tidy, with the lengths of the columns.
LEMMA TidyByLength ==
  ASSUME NEW st \in Seq(Seq(WmWindow))
  PROVE  Tidy(st) <=> /\ \A c \in 1..Len(st) : st[c] # <<>>
                      /\ \A c, d \in 1..Len(st) : \A t \in 1..Len(st[c]), u \in 1..Len(st[d]) :
                           st[c][t] = st[d][u] => c = d /\ t = u
<1>1. DOMAIN st = 1..Len(st) /\ \A d \in 1..Len(st) : DOMAIN st[d] = 1..Len(st[d])
  OBVIOUS
<1>2. ASSUME Tidy(st), NEW c \in 1..Len(st), NEW d \in 1..Len(st), NEW t \in 1..Len(st[c]), NEW u \in 1..Len(st[d]),
             st[c][t] = st[d][u]
      PROVE  c = d /\ t = u
  <2>1. c \in DOMAIN st /\ d \in DOMAIN st /\ t \in DOMAIN st[c] /\ u \in DOMAIN st[d]
    BY <1>1
  <2>2. st[c][t] = st[d][u] => c = d /\ t = u
    BY <1>2, <2>1, ZenonT(90) DEF Tidy
  <2> QED
    BY <1>2, <2>2, Zenon
<1>3. ASSUME \A c, d \in 1..Len(st) : \A t \in 1..Len(st[c]), u \in 1..Len(st[d]) : st[c][t] = st[d][u] => c = d /\ t = u,
             NEW c \in DOMAIN st, NEW d \in DOMAIN st, NEW t \in DOMAIN st[c], NEW u \in DOMAIN st[d],
             st[c][t] = st[d][u]
      PROVE  c = d /\ t = u
  <2>1. c \in 1..Len(st) /\ d \in 1..Len(st) /\ t \in 1..Len(st[c]) /\ u \in 1..Len(st[d])
    BY <1>1
  <2> QED
    BY <1>3, <2>1, Zenon
<1> QED
  BY <1>1, <1>2, <1>3, Zenon DEF Tidy

\* A window is where it is found.
LEMMA Found ==
  ASSUME NEW st, IsStrip(st), NEW w, NEW c, NEW t, At(st, w, c, t)
  PROVE  ColumnOf(st, w) = c /\ TileOf(st, w) = t
<1>1. DOMAIN st = 1..Len(st) /\ \A d \in 1..Len(st) : DOMAIN st[d] = 1..Len(st[d])
  BY DEF IsStrip
<1>2. c \in DOMAIN st /\ w \in ToSet(st[c])
  BY <1>1 DEF At, ToSet
<1>3. ASSUME NEW d \in DOMAIN st, w \in ToSet(st[d]) PROVE d = c
  <2>1. PICK u \in DOMAIN st[d] : st[d][u] = w
    BY <1>3 DEF ToSet
  <2>2. c \in DOMAIN st /\ t \in DOMAIN st[c] /\ st[c][t] = st[d][u]
    BY <1>1, <2>1 DEF At
  <2> QED
    BY <2>1, <2>2, Zenon DEF IsStrip, Tidy
<1>4. ColumnOf(st, w) = c
  BY <1>2, <1>3, Zenon DEF ColumnOf
<1>5. t \in DOMAIN st[c] /\ st[c][t] = w
  BY <1>1 DEF At
<1>6. ASSUME NEW u \in DOMAIN st[c], st[c][u] = w PROVE u = t
  <2>1. st[c][u] = st[c][t]
    BY <1>6, <1>5, Zenon
  <2> QED
    BY <1>2, <1>6, <1>5, <2>1, Zenon DEF IsStrip, Tidy
<1>7. (CHOOSE u \in DOMAIN st[c] : st[c][u] = w) = t
  BY <1>5, <1>6, Zenon
<1> QED
  BY <1>4, <1>7 DEF TileOf

\* What is on a strip is somewhere on it.
LEMMA Somewhere ==
  ASSUME NEW st, st \in Seq(Seq(WmWindow)), NEW w
  PROVE  w \in UNION {ToSet(st[c]) : c \in DOMAIN st} <=> \E c, t \in Nat : At(st, w, c, t)
<1>1. DOMAIN st = 1..Len(st) /\ Len(st) \in Nat
      /\ \A d \in 1..Len(st) : DOMAIN st[d] = 1..Len(st[d]) /\ Len(st[d]) \in Nat
  OBVIOUS
<1>2. ASSUME w \in UNION {ToSet(st[c]) : c \in DOMAIN st} PROVE \E c, t \in Nat : At(st, w, c, t)
  <2>1. PICK c \in DOMAIN st : w \in ToSet(st[c])
    BY <1>2
  <2>2. PICK t \in DOMAIN st[c] : st[c][t] = w
    BY <2>1 DEF ToSet
  <2> QED
    BY <1>1, <2>1, <2>2 DEF At
<1>3. ASSUME NEW c \in Nat, NEW t \in Nat, At(st, w, c, t) PROVE w \in UNION {ToSet(st[d]) : d \in DOMAIN st}
  <2>1. c \in DOMAIN st /\ w \in ToSet(st[c])
    BY <1>1, <1>3 DEF At, ToSet
  <2> QED
    BY <2>1
<1> QED
  BY <1>2, <1>3

\* How far the columns east of c move when a window leaves it.
Shift(st, c, d) == IF Len(st[c]) = 1 /\ c < d THEN d - 1 ELSE d

\* The other windows keep their tile, and their column but for its number.
LEMMA OthersStay ==
  ASSUME NEW st, IsStrip(st), NEW w, NEW c, NEW t, At(st, w, c, t)
  PROVE  /\ IsStrip(TakenOut(st, w))
         /\ \A d, u : ~At(TakenOut(st, w), w, d, u)
         /\ Len(TakenOut(st, w)) = IF Len(st[c]) = 1 THEN Len(st) - 1 ELSE Len(st)
         /\ \A d \in 1..Len(st) \ {c} : Shift(st, c, d) \in 1..Len(TakenOut(st, w)) /\ TakenOut(st, w)[Shift(st, c, d)] = st[d]
         /\ Len(st[c]) > 1 => Len(TakenOut(st, w)[c]) = Len(st[c]) - 1
         /\ \A v : Absent(st, v) => Absent(TakenOut(st, w), v)
<1> DEFINE out == TakenOut(st, w)
<1>1. ColumnOf(st, w) = c /\ TileOf(st, w) = t
  BY Found
<1>2. /\ Len(st) \in Nat /\ c \in 1..Len(st) /\ t \in 1..Len(st[c]) /\ st[c][t] = w /\ DOMAIN st = 1..Len(st)
      /\ \A d \in 1..Len(st) : st[d] \in Seq(WmWindow) /\ DOMAIN st[d] = 1..Len(st[d]) /\ Len(st[d]) \in Nat /\ Len(st[d]) > 0
  BY DEF IsStrip, At, Tidy
<1>3. \A d, e \in 1..Len(st) : \A u \in 1..Len(st[d]), v \in 1..Len(st[e]) : st[d][u] = st[e][v] => d = e /\ u = v
  BY TidyByLength, Zenon DEF IsStrip
<1>4. CASE Len(st[c]) = 1
  <2> DEFINE sh(k) == IF k < c THEN k ELSE k + 1
  <2>1. out = RemoveAt(st, c)
    BY <1>1, <1>4 DEF TakenOut
  <2>2. out \in Seq(Seq(WmWindow)) /\ Len(out) = Len(st) - 1 /\ \A k \in 1..Len(st) - 1 : out[k] = st[sh(k)]
    <3> HIDE DEF out
    <3>1. st \in Seq(Seq(WmWindow)) /\ c \in 1..Len(st)
      BY <1>2 DEF IsStrip
    <3> QED
      BY <2>1, <3>1, Removed
  <2>3. \A k \in 1..Len(st) - 1 : sh(k) \in 1..Len(st) /\ sh(k) # c
    BY <1>2
  <2>4. \A k, l \in 1..Len(st) - 1 : sh(k) = sh(l) => k = l
    BY <1>2
  <2>5. \A d \in 1..Len(st) \ {c} : Shift(st, c, d) \in 1..Len(st) - 1 /\ sh(Shift(st, c, d)) = d
    BY <1>2, <1>4 DEF Shift
  <2> HIDE DEF out, sh
  <2>6. DOMAIN out = 1..Len(st) - 1 /\ \A k \in 1..Len(st) - 1 : DOMAIN out[k] = 1..Len(out[k]) /\ out[k] # <<>>
    BY <1>2, <2>2, <2>3
  <2>7. ASSUME NEW k \in 1..Len(st) - 1, NEW l \in 1..Len(st) - 1, NEW u \in 1..Len(out[k]), NEW v \in 1..Len(out[l]),
               out[k][u] = out[l][v]
        PROVE  k = l /\ u = v
    <3>1. out[k] = st[sh(k)] /\ out[l] = st[sh(l)] /\ sh(k) \in 1..Len(st) /\ sh(l) \in 1..Len(st)
      BY <2>2, <2>3, Zenon
    <3>2. u \in 1..Len(st[sh(k)]) /\ v \in 1..Len(st[sh(l)]) /\ st[sh(k)][u] = st[sh(l)][v]
      BY <2>7, <3>1, Zenon
    <3>3. sh(k) = sh(l) /\ u = v
      BY <1>3, <3>1, <3>2
    <3> QED
      BY <2>4, <3>3, Zenon
  <2>8. Tidy(out)
    BY <2>2, <2>6, <2>7, TidyByLength, Zenon
  <2>9. ASSUME NEW d, NEW u, At(out, w, d, u) PROVE FALSE
    <3>1. d \in 1..Len(st) - 1 /\ u \in 1..Len(st[sh(d)]) /\ st[sh(d)][u] = w
      BY <2>2, <2>9, Zenon DEF At
    <3>2. sh(d) \in 1..Len(st) /\ sh(d) # c
      BY <2>3, <3>1, Zenon
    <3>3. c \in 1..Len(st) /\ t \in 1..Len(st[c]) /\ st[c][t] = st[sh(d)][u]
      BY <1>2, <3>1, Zenon
    <3>4. u \in 1..Len(st[sh(d)]) /\ t \in 1..Len(st[c])
      BY <3>1, <3>3, Zenon
    <3>5. c = sh(d)
      BY <1>3, <3>2, <3>3, <3>4, Zenon
    <3> QED
      BY <3>2, <3>5, Zenon
  <2>10. Len(st) - 1 = Len(out) /\ IsStrip(out)
    BY <2>2, <2>8 DEF IsStrip
  <2>11. \A d \in 1..Len(st) \ {c} : Shift(st, c, d) \in 1..Len(out) /\ out[Shift(st, c, d)] = st[d]
    BY <2>2, <2>5
  <2>12. ASSUME NEW v, NEW d, NEW u, At(out, v, d, u) PROVE At(st, v, sh(d), u)
    BY <2>2, <2>3, <2>12, Zenon DEF At
  <2> QED
    BY <1>4, <2>9, <2>10, <2>11, <2>12 DEF out, Absent
<1>5. CASE Len(st[c]) # 1
  <2> DEFINE row == RemoveAt(st[c], t)
             sh(k) == IF k < t THEN k ELSE k + 1
             or(k, u) == IF k = c THEN sh(u) ELSE u
  <2>1. out = [st EXCEPT ![c] = row]
    BY <1>1, <1>5 DEF TakenOut
  <2>2. row \in Seq(WmWindow) /\ Len(row) = Len(st[c]) - 1 /\ \A k \in 1..Len(st[c]) - 1 : row[k] = st[c][sh(k)]
    <3>1. row = RemoveAt(st[c], t)
      OBVIOUS
    <3> HIDE DEF row, out
    <3>2. st[c] \in Seq(WmWindow) /\ t \in 1..Len(st[c])
      BY <1>2
    <3> QED
      BY <3>1, <3>2, Removed
  <2> HIDE DEF row, out
  <2>3. out \in Seq(Seq(WmWindow)) /\ Len(out) = Len(st) /\ DOMAIN out = 1..Len(st)
        /\ out[c] = row /\ \A d \in 1..Len(st) \ {c} : out[d] = st[d]
    BY <1>2, <2>1, <2>2 DEF IsStrip
  <2>4. row # <<>>
    BY <1>2, <1>5, <2>2
  <2>5. \A k \in 1..Len(st) : DOMAIN out[k] = 1..Len(out[k]) /\ out[k] # <<>>
    BY <1>2, <2>2, <2>3, <2>4
  <2>6. \A k \in 1..Len(st) : \A u \in 1..Len(out[k]) : or(k, u) \in 1..Len(st[k]) /\ out[k][u] = st[k][or(k, u)]
                                 /\ (k = c => or(k, u) # t)
    <3> TAKE k \in 1..Len(st)
    <3> TAKE u \in 1..Len(out[k])
    <3>1. CASE k = c
      BY <1>2, <2>2, <2>3, <3>1
    <3>2. CASE k # c
      BY <1>2, <2>3, <3>2
    <3> QED
      BY <3>1, <3>2
  <2>7. \A k \in 1..Len(st) : \A u, v \in 1..Len(out[k]) : or(k, u) = or(k, v) => u = v
    BY <1>2, <2>2, <2>3
  <2> HIDE DEF or, sh
  <2>8. ASSUME NEW k \in 1..Len(st), NEW l \in 1..Len(st), NEW u \in 1..Len(out[k]), NEW v \in 1..Len(out[l]),
               out[k][u] = out[l][v]
        PROVE  k = l /\ u = v
    <3>1. st[k][or(k, u)] = st[l][or(l, v)] /\ or(k, u) \in 1..Len(st[k]) /\ or(l, v) \in 1..Len(st[l])
      BY <2>6, <2>8, Zenon
    <3>2. k = l /\ or(k, u) = or(l, v)
      BY <1>3, <3>1, Zenon
    <3> QED
      BY <2>7, <3>2, Zenon
  <2>9. Tidy(out)
    BY <2>3, <2>5, <2>8, TidyByLength, Zenon
  <2>10. ASSUME NEW d, NEW u, At(out, w, d, u) PROVE FALSE
    <3>1. d \in 1..Len(st) /\ u \in 1..Len(out[d]) /\ out[d][u] = w
      BY <2>3, <2>10, Zenon DEF At
    <3>2. st[d][or(d, u)] = w /\ or(d, u) \in 1..Len(st[d]) /\ (d = c => or(d, u) # t)
      BY <2>6, <3>1, Zenon
    <3>3. d = c /\ or(d, u) = t
      <4>1. c \in 1..Len(st) /\ t \in 1..Len(st[c]) /\ st[c][t] = st[d][or(d, u)]
        BY <1>2, <3>2, Zenon
      <4> QED
        BY <1>3, <3>1, <3>2, <4>1, Zenon
    <3> QED
      BY <3>2, <3>3
  <2>11. \A d \in 1..Len(st) : Shift(st, c, d) = d
    BY <1>5 DEF Shift
  <2>12. ASSUME NEW v, NEW d, NEW u, At(out, v, d, u) PROVE At(st, v, d, or(d, u))
    BY <2>3, <2>6, <2>12, Zenon DEF At
  <2> QED
    BY <1>2, <1>5, <2>2, <2>3, <2>9, <2>10, <2>11, <2>12 DEF out, IsStrip, Absent
<1> QED
  BY <1>4, <1>5

Joined(st, m, w) == [st EXCEPT ![m] = Append(st[m], w)]

\* A window that joins the bottom of a column changes no other place.
LEMMA Joins ==
  ASSUME NEW st, IsStrip(st), NEW w \in WmWindow, Absent(st, w), NEW m \in 1..Len(st),
         NEW nw, nw = Joined(st, m, w)
  PROVE  /\ IsStrip(nw) /\ Len(nw) = Len(st)
         /\ nw[m] = Append(st[m], w) /\ \A d \in 1..Len(st) \ {m} : nw[d] = st[d]
         /\ At(nw, w, m, Len(st[m]) + 1)
         /\ \A v, d, u : At(st, v, d, u) => At(nw, v, d, u)
<1>1. /\ Len(st) \in Nat /\ DOMAIN st = 1..Len(st) /\ st[m] \in Seq(WmWindow)
      /\ \A d \in 1..Len(st) : st[d] \in Seq(WmWindow) /\ Len(st[d]) \in Nat /\ Len(st[d]) > 0 /\ st[d] # <<>>
  BY DEF IsStrip, Tidy
<1>2. \A d, e \in 1..Len(st) : \A u \in 1..Len(st[d]), v \in 1..Len(st[e]) : st[d][u] = st[e][v] => d = e /\ u = v
  BY TidyByLength, Zenon DEF IsStrip
<1>3. \A d \in 1..Len(st) : \A u \in 1..Len(st[d]) : st[d][u] # w
  BY Zenon DEF Absent, At
<1> DEFINE row == Append(st[m], w)
<1>4. row \in Seq(WmWindow) /\ Len(row) = Len(st[m]) + 1 /\ row[Len(st[m]) + 1] = w
      /\ \A u \in 1..Len(st[m]) : row[u] = st[m][u]
  BY <1>1, AppendProperties
<1> HIDE DEF row
<1>5. nw \in Seq(Seq(WmWindow)) /\ Len(nw) = Len(st) /\ nw[m] = row /\ \A d \in 1..Len(st) \ {m} : nw[d] = st[d]
  BY <1>1, <1>4 DEF row, IsStrip, Joined
<1>6. ASSUME NEW d \in 1..Len(st), NEW u \in 1..Len(nw[d])
      PROVE  (d = m /\ u = Len(st[m]) + 1) \/ (u \in 1..Len(st[d]) /\ nw[d][u] = st[d][u])
  BY <1>1, <1>4, <1>5
<1>7. ASSUME NEW d \in 1..Len(st), NEW e \in 1..Len(st), NEW u \in 1..Len(nw[d]), NEW v \in 1..Len(nw[e]),
             nw[d][u] = nw[e][v]
      PROVE  d = e /\ u = v
  <2>1. CASE d = m /\ u = Len(st[m]) + 1
    <3>1. nw[d][u] = w
      BY <1>4, <1>5, <2>1
    <3> QED
      BY <1>3, <1>6, <1>7, <2>1, <3>1, Zenon
  <2>2. CASE e = m /\ v = Len(st[m]) + 1
    <3>1. nw[e][v] = w
      BY <1>4, <1>5, <2>2
    <3>2. ~(u \in 1..Len(st[d]) /\ nw[d][u] = st[d][u])
      BY <1>3, <1>7, <3>1, Zenon
    <3>3. d = m /\ u = Len(st[m]) + 1
      BY <1>6, <3>2, Zenon
    <3> QED
      BY <2>2, <3>3, Zenon
  <2>3. CASE u \in 1..Len(st[d]) /\ nw[d][u] = st[d][u] /\ v \in 1..Len(st[e]) /\ nw[e][v] = st[e][v]
    <3>1. st[d][u] = st[e][v]
      BY <1>7, <2>3
    <3> QED
      BY <1>2, <2>3, <3>1
  <2> QED
    BY <1>6, <2>1, <2>2, <2>3, Zenon
<1>8. \A d \in 1..Len(nw) : nw[d] # <<>>
  BY <1>1, <1>4, <1>5
<1>9. IsStrip(nw)
  BY <1>5, <1>7, <1>8, TidyByLength, ZenonT(90) DEF IsStrip
<1>10. At(nw, w, m, Len(st[m]) + 1)
  BY <1>1, <1>4, <1>5 DEF At
<1>11. ASSUME NEW v, NEW d, NEW u, At(st, v, d, u) PROVE At(nw, v, d, u)
  BY <1>1, <1>4, <1>5, <1>11 DEF At
<1> QED
  BY <1>5, <1>9, <1>10, <1>11 DEF row

\* A column of one window.
Single(s, w) == s # <<>> /\ Len(s) = 1 /\ s[1] = w

\* A window in a new column of its own only moves the columns east of it.
LEMMA NewColumn ==
  ASSUME NEW st, IsStrip(st), NEW w \in WmWindow, Absent(st, w), NEW k \in 1..Len(st) + 1,
         NEW own \in Seq(WmWindow), Single(own, w)
  PROVE  /\ IsStrip(InsertAt(st, k, own)) /\ Len(InsertAt(st, k, own)) = Len(st) + 1 /\ InsertAt(st, k, own)[k] = own /\ At(InsertAt(st, k, own), w, k, 1)
         /\ \A v, d, u : At(st, v, d, u) => At(InsertAt(st, k, own), v, IF d < k THEN d ELSE d + 1, u)
         /\ \A d \in 1..Len(st) : InsertAt(st, k, own)[IF d < k THEN d ELSE d + 1] = st[d]
<1> DEFINE nw == InsertAt(st, k, own)
<1> HIDE DEF nw
<1>1. /\ Len(st) \in Nat
      /\ \A d \in 1..Len(st) : st[d] \in Seq(WmWindow) /\ Len(st[d]) \in Nat /\ Len(st[d]) > 0 /\ st[d] # <<>>
  BY DEF IsStrip, Tidy
<1>0. k \in Nat /\ 1 <= k /\ k <= Len(st) + 1
  BY <1>1
<1>10. own # <<>> /\ Len(own) = 1 /\ own[1] = w
  BY DEF Single
<1>2. \A d, e \in 1..Len(st) : \A u \in 1..Len(st[d]), v \in 1..Len(st[e]) : st[d][u] = st[e][v] => d = e /\ u = v
  BY TidyByLength, Zenon DEF IsStrip
<1>3. \A d \in 1..Len(st) : \A u \in 1..Len(st[d]) : st[d][u] # w
  BY Zenon DEF Absent, At
<1> DEFINE or(d) == IF d < k THEN d ELSE d - 1
           to(d) == IF d < k THEN d ELSE d + 1
<1> HIDE DEF or, to
<1>4. nw \in Seq(Seq(WmWindow)) /\ Len(nw) = Len(st) + 1
      /\ \A d \in 1..Len(st) + 1 : nw[d] = IF d < k THEN st[d] ELSE IF d = k THEN own ELSE st[d - 1]
  <2>1. st \in Seq(Seq(WmWindow))
    BY DEF IsStrip
  <2>2. InsertAt(st, k, own) \in Seq(Seq(WmWindow)) /\ Len(InsertAt(st, k, own)) = Len(st) + 1
        /\ \A d \in 1..Len(st) + 1 :
             InsertAt(st, k, own)[d] = IF d < k THEN st[d] ELSE IF d = k THEN own ELSE st[d - 1]
    <3> DEFINE X == Seq(WmWindow)
    <3>1. st \in Seq(X) /\ own \in X
      BY <2>1
    <3> HIDE DEF X
    <3>2. InsertAt(st, k, own) \in Seq(X) /\ Len(InsertAt(st, k, own)) = Len(st) + 1
        /\ \A d \in 1..Len(st) + 1 :
             InsertAt(st, k, own)[d] = IF d < k THEN st[d] ELSE IF d = k THEN own ELSE st[d - 1]
      <4>1. \A i \in Nat : 1 <= i /\ i <= Len(st) + 1 =>
              /\ InsertAt(st, i, own) \in Seq(X) /\ Len(InsertAt(st, i, own)) = Len(st) + 1
              /\ \A d \in 1..Len(st) + 1 :
                   InsertAt(st, i, own)[d] = IF d < i THEN st[d] ELSE IF d = i THEN own ELSE st[d - 1]
        BY <3>1, Inserted
      <4> QED
        BY <1>0, <4>1, Zenon
    <3> QED
      BY <3>2, Zenon DEF X
  <2> QED
    BY <2>2, Zenon DEF nw
<1>5. nw[k] = own
  <2>1. nw[k] = IF k < k THEN st[k] ELSE IF k = k THEN own ELSE st[k - 1]
    BY <1>4, Zenon
  <2>2. ~(k < k)
    BY <1>0
  <2> QED
    BY <2>1, <2>2, Zenon
<1>6. \A d \in 1..Len(st) + 1 : d = k \/ (or(d) \in 1..Len(st) /\ nw[d] = st[or(d)])
  BY <1>0, <1>1, <1>4 DEF or
<1>7. \A d, e \in 1..Len(st) + 1 : d # k /\ e # k /\ or(d) = or(e) => d = e
  BY <1>0, <1>1 DEF or
<1>8. \A d \in 1..Len(st) : to(d) \in 1..Len(st) + 1 /\ nw[to(d)] = st[d]
  <2> SUFFICES ASSUME NEW d \in 1..Len(st) PROVE to(d) \in 1..Len(st) + 1 /\ nw[to(d)] = st[d]
    OBVIOUS
  <2>1. CASE d < k
    <3>1. to(d) = d /\ d \in 1..Len(st) + 1
      BY <1>1, <2>1 DEF to
    <3> QED
      BY <1>4, <2>1, <3>1
  <2>2. CASE ~(d < k)
    <3>1. to(d) = d + 1 /\ d + 1 \in 1..Len(st) + 1 /\ ~(d + 1 < k) /\ d + 1 # k /\ d + 1 - 1 = d
      BY <1>0, <1>1, <2>2 DEF to
    <3> HIDE DEF nw
    <3> QED
      BY <1>4, <3>1
  <2> QED
    BY <2>1, <2>2
<1>9. \A d \in 1..Len(nw) : nw[d] # <<>>
  BY <1>0, <1>1, <1>4, <1>5, <1>6, <1>10
<1>11. ASSUME NEW d \in 1..Len(nw), NEW e \in 1..Len(nw), NEW u \in 1..Len(nw[d]), NEW v \in 1..Len(nw[e]),
              nw[d][u] = nw[e][v]
      PROVE  d = e /\ u = v
  <2>0. d \in 1..Len(st) + 1 /\ e \in 1..Len(st) + 1
    BY <1>4
  <2>1. CASE d = k /\ e = k
    <3>1. u \in 1..1 /\ v \in 1..1
      BY <1>5, <1>10, <2>1
    <3> QED
      BY <2>1, <3>1
  <2>2. CASE d = k /\ e # k
    <3>1. u = 1 /\ nw[e][v] = w
      BY <1>5, <1>10, <1>11, <2>2
    <3> QED
      BY <1>3, <1>6, <2>0, <2>2, <3>1, Zenon
  <2>3. CASE d # k /\ e = k
    <3>1. v = 1 /\ nw[d][u] = w
      BY <1>5, <1>10, <1>11, <2>3
    <3> QED
      BY <1>3, <1>6, <2>0, <2>3, <3>1, Zenon
  <2>4. CASE d # k /\ e # k
    <3>1. nw[d] = st[or(d)] /\ nw[e] = st[or(e)] /\ or(d) \in 1..Len(st) /\ or(e) \in 1..Len(st)
      BY <1>6, <2>0, <2>4, Zenon
    <3>2. u \in 1..Len(st[or(d)]) /\ v \in 1..Len(st[or(e)]) /\ st[or(d)][u] = st[or(e)][v]
      BY <1>11, <3>1, Zenon
    <3>3. or(d) = or(e) /\ u = v
      <4>0. \A k2 \in 1..Len(st) : \A u2 \in 1..Len(st[or(d)]), v2 \in 1..Len(st[k2]) :
             st[or(d)][u2] = st[k2][v2] => or(d) = k2 /\ u2 = v2
        BY <1>2, <3>1, Zenon
      <4>1. \A u2 \in 1..Len(st[or(d)]), v2 \in 1..Len(st[or(e)]) : st[or(d)][u2] = st[or(e)][v2] => or(d) = or(e) /\ u2 = v2
        BY <4>0, <3>1, Zenon
      <4> QED
        BY <3>2, <4>1, Zenon
    <3> QED
      BY <1>7, <2>0, <2>4, <3>3, Zenon
  <2> QED
    BY <2>1, <2>2, <2>3, <2>4
<1>12. IsStrip(nw)
  BY <1>4, <1>9, <1>11, TidyByLength, Zenon DEF IsStrip
<1>13. At(nw, w, k, 1)
  BY <1>0, <1>1, <1>4, <1>5, <1>10 DEF At
<1>14. ASSUME NEW v, NEW d, NEW u, At(st, v, d, u) PROVE At(nw, v, to(d), u)
  BY <1>4, <1>8, <1>14 DEF At
<1> QED
  BY <1>4, <1>5, <1>8, <1>12, <1>13, <1>14 DEF to, nw

SwappedColumns(st, c, n) == [st EXCEPT ![c] = st[n], ![n] = st[c]]
SwappedTiles(st, c, t, u) == [st EXCEPT ![c][t] = st[c][u], ![c][u] = st[c][t]]

\* Two columns that change places.
LEMMA ColumnsSwapped ==
  ASSUME NEW st, IsStrip(st), NEW c \in 1..Len(st), NEW n \in 1..Len(st),
         NEW nw, nw = SwappedColumns(st, c, n)
  PROVE  /\ IsStrip(nw)
         /\ \A v, d, u : At(st, v, d, u) => At(nw, v, IF d = c THEN n ELSE IF d = n THEN c ELSE d, u)
<1>1. /\ Len(st) \in Nat /\ DOMAIN st = 1..Len(st)
      /\ \A d \in 1..Len(st) : st[d] \in Seq(WmWindow) /\ st[d] # <<>>
  BY DEF IsStrip, Tidy
<1>2. \A d, e \in 1..Len(st) : \A u \in 1..Len(st[d]), v \in 1..Len(st[e]) : st[d][u] = st[e][v] => d = e /\ u = v
  BY TidyByLength, Zenon DEF IsStrip
<1> DEFINE or(d) == IF d = c THEN n ELSE IF d = n THEN c ELSE d
<1>3. nw \in Seq(Seq(WmWindow)) /\ Len(nw) = Len(st) /\ \A d \in 1..Len(st) : nw[d] = st[or(d)] /\ or(d) \in 1..Len(st)
  BY <1>1 DEF IsStrip, SwappedColumns
<1>4. \A d, e \in 1..Len(st) : (or(d) = or(e) => d = e) /\ or(or(d)) = d
  OBVIOUS
<1> HIDE DEF or
<1>5. ASSUME NEW d \in 1..Len(nw), NEW e \in 1..Len(nw), NEW u \in 1..Len(nw[d]), NEW v \in 1..Len(nw[e]),
             nw[d][u] = nw[e][v]
      PROVE  d = e /\ u = v
  <2>1. d \in 1..Len(st) /\ e \in 1..Len(st) /\ nw[d] = st[or(d)] /\ nw[e] = st[or(e)] /\ or(d) \in 1..Len(st) /\ or(e) \in 1..Len(st)
    BY <1>3
  <2>2. u \in 1..Len(st[or(d)]) /\ v \in 1..Len(st[or(e)]) /\ st[or(d)][u] = st[or(e)][v]
    BY <1>5, <2>1, Zenon
  <2>3. or(d) = or(e) /\ u = v
    <3>0. \A k2 \in 1..Len(st) : \A u2 \in 1..Len(st[or(d)]), v2 \in 1..Len(st[k2]) :
             st[or(d)][u2] = st[k2][v2] => or(d) = k2 /\ u2 = v2
      BY <1>2, <2>1, Zenon
    <3>1. \A u2 \in 1..Len(st[or(d)]), v2 \in 1..Len(st[or(e)]) : st[or(d)][u2] = st[or(e)][v2] => or(d) = or(e) /\ u2 = v2
      BY <3>0, <2>1, Zenon
    <3> QED
      BY <2>2, <3>1, Zenon
  <2> QED
    BY <1>4, <2>1, <2>3, Zenon
<1>6. \A d \in 1..Len(nw) : nw[d] # <<>>
  BY <1>1, <1>3
<1>7. IsStrip(nw)
  BY <1>3, <1>5, <1>6, TidyByLength, Zenon DEF IsStrip
<1>8. ASSUME NEW v, NEW d, NEW u, At(st, v, d, u) PROVE At(nw, v, or(d), u)
  BY <1>3, <1>4, <1>8 DEF At
<1> QED
  BY <1>7, <1>8 DEF or

\* Two tiles of one column that change places.
LEMMA TilesSwapped ==
  ASSUME NEW st, IsStrip(st), NEW c \in 1..Len(st), NEW t \in 1..Len(st[c]), NEW u \in 1..Len(st[c]), t # u,
         NEW nw, nw = SwappedTiles(st, c, t, u)
  PROVE  /\ IsStrip(nw) /\ Len(nw) = Len(st)
         /\ At(nw, st[c][t], c, u) /\ At(nw, st[c][u], c, t)
         /\ \A v \in 1..Len(st[c]) \ {t, u} : At(nw, st[c][v], c, v)
<1>1. /\ Len(st) \in Nat /\ DOMAIN st = 1..Len(st)
      /\ \A d \in 1..Len(st) : st[d] \in Seq(WmWindow) /\ st[d] # <<>> /\ DOMAIN st[d] = 1..Len(st[d]) /\ Len(st[d]) \in Nat
  BY DEF IsStrip, Tidy
<1>2. \A d, e \in 1..Len(st) : \A v \in 1..Len(st[d]), w \in 1..Len(st[e]) : st[d][v] = st[e][w] => d = e /\ v = w
  BY TidyByLength, Zenon DEF IsStrip
<1> DEFINE or(d, v) == IF d # c THEN v ELSE IF v = t THEN u ELSE IF v = u THEN t ELSE v
           row == [st[c] EXCEPT ![t] = st[c][u], ![u] = st[c][t]]
<1>3. row \in Seq(WmWindow) /\ Len(row) = Len(st[c]) /\ \A v \in 1..Len(st[c]) : row[v] = st[c][or(c, v)]
  BY <1>1
<1>4. nw = [st EXCEPT ![c] = row]
  BY <1>1 DEF SwappedTiles
<1> HIDE DEF row
<1>5. nw \in Seq(Seq(WmWindow)) /\ Len(nw) = Len(st) /\ nw[c] = row /\ \A d \in 1..Len(st) \ {c} : nw[d] = st[d]
  BY <1>1, <1>3, <1>4 DEF IsStrip
<1>6. \A d \in 1..Len(st) : /\ Len(nw[d]) = Len(st[d])
                            /\ \A v \in 1..Len(st[d]) : or(d, v) \in 1..Len(st[d]) /\ nw[d][v] = st[d][or(d, v)]
  BY <1>1, <1>3, <1>5
<1>7. \A d \in 1..Len(st) : \A v, w \in 1..Len(st[d]) : or(d, v) = or(d, w) => v = w
  OBVIOUS
<1>8. or(c, t) = u /\ or(c, u) = t /\ \A v \in 1..Len(st[c]) \ {t, u} : or(c, v) = v
  OBVIOUS
<1> HIDE DEF or
<1>9. ASSUME NEW d \in 1..Len(nw), NEW e \in 1..Len(nw), NEW v \in 1..Len(nw[d]), NEW w \in 1..Len(nw[e]),
             nw[d][v] = nw[e][w]
      PROVE  d = e /\ v = w
  <2>1. d \in 1..Len(st) /\ e \in 1..Len(st) /\ v \in 1..Len(st[d]) /\ w \in 1..Len(st[e])
    BY <1>5, <1>6
  <2>2. st[d][or(d, v)] = st[e][or(e, w)] /\ or(d, v) \in 1..Len(st[d]) /\ or(e, w) \in 1..Len(st[e])
    BY <1>6, <1>9, <2>1, Zenon
  <2>3. d = e /\ or(d, v) = or(e, w)
    <3>1. st[d][or(d, v)] = st[e][or(e, w)] => d = e /\ or(d, v) = or(e, w)
      BY <1>2, <2>1, <2>2, ZenonT(90)
    <3> QED
      BY <2>2, <3>1, Zenon
  <2> QED
    BY <1>7, <2>1, <2>3, Zenon
<1>10. \A d \in 1..Len(nw) : nw[d] # <<>>
  <2>1. row # <<>>
    BY <1>1, <1>3
  <2> QED
    BY <1>1, <1>5, <2>1
<1>11. IsStrip(nw)
  BY <1>5, <1>9, <1>10, TidyByLength, Zenon DEF IsStrip
<1>12. \A v \in 1..Len(st[c]) : nw[c][v] = st[c][or(c, v)] /\ v \in 1..Len(nw[c])
  BY <1>6
<1>13. c \in 1..Len(nw)
  BY <1>5
<1> QED
  BY <1>5, <1>8, <1>11, <1>12, <1>13 DEF At

\* A new column of one window.
LEMMA ItsOwnColumn == ASSUME NEW w \in WmWindow PROVE <<w>> \in Seq(WmWindow) /\ Single(<<w>>, w)
  BY DEF Single

-----------------------------------------------------------------------------
(* A window is brought beside its source *)

\* Lengths: more than one is not one, and not more is one.
LEMMA OneOrMore == ASSUME NEW n \in Nat PROVE (n > 1 => n # 1) /\ (n > 0 /\ ~(n > 1) => n = 1)
  OBVIOUS

\* The column of the source is what its row is read from.
LEMMA RowFound ==
  ASSUME NEW st, IsStrip(st)
  PROVE  /\ \A c, t : At(st, placing.source, c, t) => SourceRow(st) = st[c]
         /\ Absent(st, placing.source) => SourceRow(st) = <<>>
<1>1. ASSUME NEW c, NEW t, At(st, placing.source, c, t) PROVE SourceRow(st) = st[c]
  <2>1. ColumnOf(st, placing.source) = c
    BY <1>1, Found
  <2>2. c \in Nat /\ t \in Nat
    BY <1>1 DEF At, IsStrip
  <2>3. placing.source \in UNION {ToSet(st[d]) : d \in DOMAIN st}
    BY <1>1, <2>2, Somewhere DEF IsStrip
  <2> QED
    BY <2>1, <2>3 DEF SourceRow
<1>2. ASSUME Absent(st, placing.source) PROVE SourceRow(st) = <<>>
  <2>1. placing.source \notin UNION {ToSet(st[d]) : d \in DOMAIN st}
    BY <1>2, Somewhere DEF IsStrip, Absent
  <2> QED
    BY <2>1 DEF SourceRow
<1> QED
  BY <1>1, <1>2

\* What closes in the source's column changes its row.
LEMMA RowTells ==
  ASSUME IsStrip(strip), NEW w, NEW c, NEW t, NEW u, At(strip, w, c, t), At(strip, placing.source, c, u)
  PROVE  SourceRow(TakenOut(strip, w)) # SourceRow(strip)
<1> DEFINE out == TakenOut(strip, w)
<1>1. SourceRow(strip) = strip[c]
  BY RowFound
<1>2. c \in 1..Len(strip) /\ Len(strip) \in Nat /\ strip[c] # <<>> /\ Len(strip[c]) \in Nat /\ strip[c] \in Seq(WmWindow)
  BY DEF IsStrip, At, Tidy
<1>3. /\ IsStrip(out) /\ Len(out) = IF Len(strip[c]) = 1 THEN Len(strip) - 1 ELSE Len(strip)
      /\ \A d \in 1..Len(strip) \ {c} : out[Shift(strip, c, d)] = strip[d]
      /\ Len(strip[c]) > 1 => Len(out[c]) = Len(strip[c]) - 1
      /\ Absent(out, w)
  BY OthersStay DEF Absent
<1> HIDE DEF out
<1>4. CASE Absent(out, placing.source)
  BY <1>1, <1>2, <1>3, <1>4, RowFound DEF out
<1>5. CASE ~Absent(out, placing.source)
  <2>1. PICK d, v : At(out, placing.source, d, v)
    BY <1>5 DEF Absent
  <2>2. SourceRow(out) = out[d]
    BY <1>3, <2>1, RowFound
  <2>3. Len(strip[c]) > 1
    <3>1. placing.source # w
      BY <1>3, <2>1 DEF Absent
    <3> QED
      BY <1>2, <3>1 DEF At
  <2>7. Len(strip[c]) # 1
    <3>1. Len(strip[c]) \in Nat
      BY <1>2, Zenon
    <3> QED
      BY <2>3, <3>1, OneOrMore, Zenon
  <2>4. d \in 1..Len(strip)
    BY <1>3, <2>1, <2>3 DEF At
  <2>5. CASE d = c
    BY <1>1, <1>2, <1>3, <2>2, <2>3, <2>5 DEF out
  <2>6. CASE d # c
    <3>1. Shift(strip, c, d) = d
      BY <2>7 DEF Shift
    <3>2. out[d] = strip[d]
      BY <1>3, <2>4, <2>6, <3>1
    <3>3. At(strip, placing.source, d, v)
      BY <2>1, <2>4, <3>2 DEF At
    <3>4. d = c
      BY <3>3, Found
    <3> QED
      BY <2>6, <3>4
  <2> QED
    BY <2>5, <2>6
<1> QED
  BY <1>4, <1>5

\* A source that another call moves either stays where it is or has another row.
LEMMA MovedRowTells ==
  ASSUME IsStrip(strip), NEW c, NEW t, At(strip, placing.source, c, t), placing.source \in WmWindow, NEW side \in WmSides,
         MoveDirection(strip, placing.source, side) # strip
  PROVE  SourceRow(MoveDirection(strip, placing.source, side)) # SourceRow(strip)
<1> DEFINE w == placing.source  out == TakenOut(strip, w)  nw == MoveDirection(strip, w, side)
<1>1. SourceRow(strip) = strip[c]
  BY RowFound
<1>2. ColumnOf(strip, w) = c /\ TileOf(strip, w) = t
  BY Found
<1>3. /\ c \in 1..Len(strip) /\ Len(strip) \in Nat /\ DOMAIN strip = 1..Len(strip) /\ t \in 1..Len(strip[c])
      /\ \A d \in 1..Len(strip) : strip[d] \in Seq(WmWindow) /\ Len(strip[d]) \in Nat /\ Len(strip[d]) > 0 /\ DOMAIN strip[d] = 1..Len(strip[d])
  BY DEF IsStrip, At, Tidy
<1>0. Len(strip[c]) \in Nat /\ Len(strip[c]) > 0
  BY <1>3
<1>4. /\ IsStrip(out) /\ Len(out) = IF Len(strip[c]) = 1 THEN Len(strip) - 1 ELSE Len(strip)
      /\ Absent(out, w)
      /\ \A d \in 1..Len(strip) \ {c} : Shift(strip, c, d) \in 1..Len(out) /\ out[Shift(strip, c, d)] = strip[d]
  BY OthersStay DEF Absent
<1> HIDE DEF out
<1>5. CASE side \in {"west", "east"} /\ Len(strip[c]) > 1
  <2> DEFINE k == IF side = "west" THEN c ELSE c + 1
  <2>1. nw = InsertAt(out, k, <<w>>)
    BY <1>2, <1>5 DEF MoveDirection, ConsumeOrExpel, out
  <2>2. k \in 1..Len(out) + 1
    <3>1. Len(strip[c]) # 1
      BY <1>0, <1>5, OneOrMore, Zenon
    <3>2. Len(out) = Len(strip)
      BY <1>4, <3>1, Zenon
    <3> QED
      BY <1>3, <3>2
  <2> HIDE DEF nw, k, w
  <2>3. w \in WmWindow /\ <<w>> \in Seq(WmWindow) /\ Single(<<w>>, w)
    BY ItsOwnColumn DEF w
  <2>4. IsStrip(nw) /\ nw[k] = <<w>> /\ At(nw, w, k, 1)
    <3>1. IsStrip(out) /\ Absent(out, w)
      BY <1>4
    <3> HIDE DEF Absent, IsStrip, Single, At
    <3> QED
      BY <2>1, <2>2, <2>3, <3>1, NewColumn, ZenonT(40)
  <2>5. SourceRow(nw) = <<w>>
    BY <2>4, RowFound DEF w
  <2>6. Len(strip[c]) # Len(<<w>>)
    BY <1>0, <1>5, <2>3, OneOrMore, Zenon DEF Single
  <2> QED
    BY <1>1, <2>5, <2>6 DEF nw, w
<1>6. CASE side \in {"west", "east"} /\ ~(Len(strip[c]) > 1)
  <2>0. Len(strip[c]) = 1
    BY <1>0, <1>6, OneOrMore, Zenon
  <2> DEFINE m == IF side = "west" THEN c - 1 ELSE c
             n == Next1(c, side)
  <2>1. n \in 1..Len(strip) /\ nw = [out EXCEPT ![m] = Append(@, w)]
    BY <1>2, <1>3, <1>6 DEF MoveDirection, ConsumeOrExpel, out
  <2>2. m \in 1..Len(out) /\ out[m] = strip[n] /\ Len(strip[n]) > 0
    <3>1. m = Shift(strip, c, n) /\ n # c
      BY <1>3, <1>6, <2>0, <2>1 DEF Shift, Next1
    <3>2. m \in 1..Len(out) /\ out[m] = strip[n]
      BY <1>4, <2>1, <3>1
    <3> QED
      BY <1>3, <2>1, <3>2
  <2> HIDE DEF nw, m, n, w
  <2>3. IsStrip(nw) /\ nw[m] = Append(out[m], w) /\ At(nw, w, m, Len(out[m]) + 1)
    <3>1. w \in WmWindow /\ Absent(out, w) /\ IsStrip(out)
      BY <1>4 DEF w
    <3>2. nw = Joined(out, m, w) /\ m \in 1..Len(out)
      BY <2>1, <2>2 DEF Joined
    <3> HIDE DEF Absent
    <3> QED
      BY <3>1, <3>2, Joins, ZenonT(40)
  <2>4. SourceRow(nw) = nw[m]
    BY <2>3, RowFound DEF w
  <2>5. Len(nw[m]) # 1
    <3>1. out[m] \in Seq(WmWindow) /\ w \in WmWindow
      BY <1>3, <2>1, <2>2 DEF w
    <3>2. Len(Append(out[m], w)) = Len(out[m]) + 1
      BY <3>1
    <3> QED
      BY <2>2, <2>3, <3>1, <3>2
  <2> QED
    BY <1>1, <2>0, <2>4, <2>5 DEF nw, w
<1>7. CASE side \notin {"west", "east"}
  <2> DEFINE u == IF side = "north" THEN t - 1 ELSE t + 1
  <2>3. strip[c][t] = w
    BY DEF At
  <2>1. u \in 1..Len(strip[c]) /\ nw = SwappedTiles(strip, c, t, u)
    BY <1>2, <1>3, <1>7, <2>3 DEF MoveDirection, MoveTile, SwappedTiles
  <2>2. u # t /\ u \in Int
    BY <1>3
  <2> HIDE DEF nw, u, w
  <2>4. IsStrip(nw) /\ At(nw, w, c, u) /\ At(nw, strip[c][u], c, t)
    BY <1>3, <2>1, <2>2, <2>3, TilesSwapped
  <2>5. SourceRow(nw) = nw[c]
    BY <2>4, RowFound DEF w
  <2>6. nw[c][t] = strip[c][u]
    BY <2>4 DEF At
  <2>7. strip[c][u] # strip[c][t]
    <3>1. strip \in Seq(Seq(WmWindow)) /\ Tidy(strip)
      BY DEF IsStrip
    <3> QED
      BY <1>3, <2>1, <2>2, <3>1, TidyByLength
  <2> QED
    BY <1>1, <2>5, <2>6, <2>7 DEF nw, w
<1> QED
  BY <1>5, <1>6, <1>7

\* The record of a placement has its fields.
IsPlacing(p) == p = [pc |-> p.pc, side |-> p.side, source |-> p.source, tile |-> p.tile, moves |-> p.moves,
                     disturbed |-> p.disturbed]
\* A placement that nobody disturbed, on niri.
OnItsOwn == wm.name = "niri" /\ ~placing.disturbed
Vertical == placing.side \in {"north", "south"}
SourceAt(c) == At(strip, placing.source, c, placing.tile)

(* Where the window and its source are at every step, as long as nobody       *)
(* disturbs them: alone in the column right of the source, then below it in   *)
(* its column, as many tiles as there are moves to come.                     *)
PlacedSo ==
  \/ /\ placing.pc = "idle" /\ Absent(strip, NewWindow)
     /\ keyWindow = NoWmWindow \/ ~Absent(strip, keyWindow)
  \/ placing.pc = "opening" /\ Absent(strip, NewWindow) /\ keyWindow = placing.source /\ \E c \in Nat : SourceAt(c)
  \/ /\ placing.pc \in {"focus", "check", "native", "column", "consume"}
     /\ keyWindow = NewWindow /\ placing.source # NewWindow
     /\ \E c \in Nat : SourceAt(c) /\ At(strip, NewWindow, c + 1, 1) /\ Len(strip[c + 1]) = 1
     /\ placing.pc = "native" => placing.side = "east"
     /\ placing.pc = "column" => placing.side = "west"
     /\ placing.pc = "consume" => Vertical
  \/ /\ placing.pc = "tile" /\ Vertical /\ keyWindow = NewWindow
     /\ \E c, n \in Nat : SourceAt(c) /\ At(strip, NewWindow, c, n) /\ n > placing.tile
  \/ /\ placing.pc = "up" /\ Vertical /\ keyWindow = NewWindow /\ placing.moves \in Nat /\ placing.tile \in Nat
     /\ \E c \in Nat : /\ At(strip, NewWindow, c, TargetTile + placing.moves)
                       /\ At(strip, placing.source, c,
                             IF TargetTile + placing.moves = placing.tile THEN placing.tile + 1 ELSE placing.tile)
  \/ placing.pc = "ended" /\ Beside(strip, placing.source, NewWindow, placing.side)
  \/ placing.pc = "failed" /\ keyWindow = NewWindow

WInv ==
  /\ IsPlacing(placing) /\ wm \in Adapters /\ Accepts(wm) /\ placing.side \in WmSides
  /\ placing.pc \in {"idle", "opening", "focus", "check", "native", "column", "consume", "tile", "up", "ended", "failed"}
  /\ placing.pc = "idle" => placing = NoPlace
  /\ OnItsOwn => IsStrip(strip) /\ PlacedSo

\* An adapter that connected has the primitives and the composer that its plans
\* take, and niri's are native only toward the east.
LEMMA PlansAreBacked ==
  ASSUME wm \in Adapters, Accepts(wm), NEW d \in WmSides
  PROVE  /\ PlanTearOut(wm, d) = "composed" => wm.composer
         /\ PlanTearOut(wm, d) \in {"native", "composed", "unsupported"}
         /\ wm.name = "niri" => PlanTearOut(wm, d) = IF d = "east" THEN "native" ELSE "composed"
<1>1. PICK declared \in {Niri, I3, Yabai, Paneru} : Declares(wm, declared)
  BY AdaptersAssumption
<1>2. wm.tearOut = declared.tearOut /\ wm.name = declared.name
  BY <1>1 DEF Declares, Niri, I3, Yabai, Paneru
<1>3. wm.tearOut[d] \in {"native", "composed", "unsupported"}
  <2>1. Niri.tearOut[d] \in {"native", "composed"}
    BY DEF Niri, Uniform, WmSides
  <2>2. I3.tearOut[d] = "unsupported" /\ Yabai.tearOut[d] = "unsupported"
    BY DEF I3, Yabai, Uniform, WmSides
  <2>3. Paneru.tearOut[d] \in {"native", "unsupported"}
    BY DEF Paneru, WmSides
  <2> QED
    BY <1>1, <1>2, <2>1, <2>2, <2>3
<1>4. wm.name = "niri" => wm.tearOut[d] = IF d = "east" THEN "native" ELSE "composed"
  <2> SUFFICES ASSUME wm.name = "niri" PROVE wm.tearOut[d] = IF d = "east" THEN "native" ELSE "composed"
    OBVIOUS
  <2>1. declared = Niri
    <3>1. I3.name = "i3" /\ Yabai.name = "yabai" /\ Paneru.name = "paneru"
      BY DEF I3, Yabai, Paneru
    <3> QED
      BY <1>1, <1>2, <3>1
  <2> QED
    BY <1>2, <2>1 DEF Niri, Uniform, WmSides
<1>5. wm.tearOut[d] = "composed" => ComposesTearOut(wm, d)
  BY DEF Accepts, Validates
<1> QED
  BY <1>3, <1>4, <1>5 DEF Accepts, PlanTearOut

\* Which steps keep the parts of the record.
LEMMA PlacingStays ==
  ASSUME WInv, [WmNext]_wmVars
  PROVE  /\ IsPlacing(placing)' /\ wm' = wm /\ wm' \in Adapters /\ Accepts(wm)' /\ placing'.side \in WmSides
         /\ ~placing'.disturbed => ~placing.disturbed
<1> USE DEF IsPlacing
<1>0. IsPlacing(placing) /\ placing.side \in WmSides
  BY DEF WInv
<1>1. ASSUME NEW d \in WmSides, BeginTearOut(d)
      PROVE  IsPlacing(placing)' /\ wm' = wm /\ placing'.side \in WmSides /\ ~placing.disturbed
  <2>1. placing = NoPlace
    BY <1>1 DEF BeginTearOut, WInv
  <2> QED
    BY <1>1, <2>1 DEF BeginTearOut, NoPlace
<1>2. ASSUME NEW st, NEW w, NEW pc, Act(st, w, pc)
      PROVE  IsPlacing(placing)' /\ wm' = wm /\ placing'.side = placing.side /\ (placing.disturbed => placing'.disturbed)
  BY <1>0, <1>2 DEF Act
<1>3. ASSUME NEW st, NEW w, Others(st, w)
      PROVE  IsPlacing(placing)' /\ wm' = wm /\ placing'.side = placing.side /\ (placing.disturbed => placing'.disturbed)
  BY <1>0, <1>3 DEF Others
<1>4. CASE OpensWindow \/ FocusTornOut \/ CheckFocused \/ PlaceNatively \/ PlaceColumn \/ ConsumeIntoColumn
  BY <1>0, <1>2, <1>4 DEF OpensWindow, FocusTornOut, CheckFocused, PlaceNatively, PlaceColumn, ConsumeIntoColumn, WInv
<1>5. CASE ReadTile \/ MoveUp
  <2>1. \/ \E st, w, pc : Act(st, w, pc)
        \/ \E x : placing' = [placing EXCEPT !.pc = "up", !.moves = x] /\ wm' = wm
        \/ placing' = [placing EXCEPT !.moves = @ - 1] /\ wm' = wm
    BY <1>5 DEF ReadTile, MoveUp
  <2> QED
    BY <1>0, <1>2, <2>1 DEF WInv
<1>6. CASE RequestFails
  BY <1>0, <1>6 DEF RequestFails, WInv
<1>7. CASE UserFocusesOnStrip \/ ClosesOnStrip \/ OtherCallMoves
  BY <1>0, <1>3, <1>7 DEF UserFocusesOnStrip, ClosesOnStrip, OtherCallMoves, WInv
<1>8. CASE UNCHANGED wmVars
  BY <1>8 DEF wmVars, WInv, Accepts, Validates, PlanTearOut, ComposesTearOut, ComposesResize
<1>9. wm' = wm => wm' \in Adapters /\ Accepts(wm)'
  BY DEF WInv, Accepts, Validates, PlanTearOut, ComposesTearOut, ComposesResize
<1> QED
  BY <1>0, <1>1, <1>4, <1>5, <1>6, <1>7, <1>8, <1>9 DEF WmNext

\* A place on a strip is a pair of numbers.
LEMMA AtTyped ==
  ASSUME NEW st, IsStrip(st), NEW w, NEW c, NEW t, At(st, w, c, t)
  PROVE  c \in Nat /\ t \in Nat /\ t > 0 /\ c > 0 /\ w \in WmWindow /\ st[c] \in Seq(WmWindow) /\ Len(st) \in Nat
  BY DEF At, IsStrip

\* On niri the focused window goes by its own number.
LEMMA NiriFocus == ASSUME OnItsOwn PROVE FocusedRecord = keyWindow
  BY DEF OnItsOwn, FocusedRecord, IdOf

\* The source is where the focus is, and its tile is read there.
LEMMA BeginRight ==
  ASSUME WInv, OnItsOwn, NEW d \in WmSides, BeginTearOut(d)
  PROVE  IsStrip(strip)' /\ PlacedSo'
<1>1. IsStrip(strip) /\ PlacedSo /\ placing.pc = "idle" /\ keyWindow # NoWmWindow
  BY NiriFocus DEF WInv, BeginTearOut
<1>2. Absent(strip, NewWindow) /\ ~Absent(strip, keyWindow)
  BY <1>1 DEF PlacedSo
<1>3. PICK c, t : At(strip, keyWindow, c, t)
  BY <1>2 DEF Absent
<1>4. c \in Nat /\ TileOf(strip, keyWindow) = t
  BY <1>1, <1>3, AtTyped, Found
<1>5. /\ strip' = strip /\ keyWindow' = keyWindow /\ placing'.pc = "opening"
      /\ placing'.source = keyWindow /\ placing'.tile = t
  BY <1>4, NiriFocus DEF BeginTearOut, NoPlace, TileIndex, OnItsOwn
<1>6. Absent(strip, NewWindow)' /\ SourceAt(c)'
  BY <1>2, <1>3, <1>5 DEF Absent, SourceAt, At
<1> QED
  BY <1>1, <1>4, <1>5, <1>6 DEF PlacedSo, IsStrip, Tidy

\* The window opens in a column of its own, right of its source.
LEMMA OpensRight ==
  ASSUME WInv, OnItsOwn, OpensWindow
  PROVE  IsStrip(strip)' /\ PlacedSo'
<1> DEFINE w == NewWindow  v == placing.source
<1>1. IsStrip(strip) /\ PlacedSo /\ placing.pc = "opening" /\ IsPlacing(placing)
  BY DEF WInv, OpensWindow
<1>2. Absent(strip, w) /\ keyWindow = v /\ \E c \in Nat : SourceAt(c)
  BY <1>1 DEF PlacedSo
<1>3. PICK c \in Nat : SourceAt(c)
  BY <1>2
<1>4. At(strip, v, c, placing.tile) /\ ColumnOf(strip, v) = c /\ v # NoWmWindow /\ v # w
  BY <1>1, <1>2, <1>3, Found, AtTyped, WmAssumption DEF SourceAt, Absent
<1>5. /\ strip' = InsertAt(strip, c + 1, <<w>>) /\ keyWindow' = w /\ placing'.pc = "focus"
      /\ placing'.source = v /\ placing'.tile = placing.tile
  BY <1>1, <1>2, <1>4 DEF OpensWindow, Act, IsPlacing
<1> HIDE DEF w, v
<1>6. c + 1 \in 1..Len(strip) + 1 /\ c < c + 1
  BY <1>1, <1>4, AtTyped DEF At
<1>7. w \in WmWindow /\ <<w>> \in Seq(WmWindow) /\ Single(<<w>>, w)
  BY ItsOwnColumn, WmAssumption DEF w
<1>8. /\ IsStrip(InsertAt(strip, c + 1, <<w>>)) /\ InsertAt(strip, c + 1, <<w>>)[c + 1] = <<w>>
      /\ At(InsertAt(strip, c + 1, <<w>>), w, c + 1, 1)
      /\ At(InsertAt(strip, c + 1, <<w>>), v, c, placing.tile)
  <2> DEFINE k == c + 1  own == <<w>>
  <2> HIDE DEF k, own
  <2>1. k \in 1..Len(strip) + 1 /\ own \in Seq(WmWindow) /\ Single(own, w)
    BY <1>6, <1>7 DEF k, own
  <2>2. /\ IsStrip(InsertAt(strip, k, own)) /\ InsertAt(strip, k, own)[k] = own /\ At(InsertAt(strip, k, own), w, k, 1)
        /\ \A x, d, u : At(strip, x, d, u) => At(InsertAt(strip, k, own), x, IF d < k THEN d ELSE d + 1, u)
    BY <1>1, <1>2, <1>7, <2>1, NewColumn
  <2>3. (IF c < k THEN c ELSE c + 1) = c
    BY <1>6 DEF k
  <2>4. At(InsertAt(strip, k, own), v, c, placing.tile)
    BY <1>4, <2>2, <2>3
  <2> QED
    BY <2>2, <2>4 DEF k, own
<1>9. IsStrip(strip') /\ At(strip', w, c + 1, 1) /\ At(strip', v, c, placing.tile) /\ Len(strip'[c + 1]) = 1
  BY <1>5, <1>7, <1>8 DEF Single
<1>10. PlacedSo'
  <2>1. SourceAt(c)'
    BY <1>5, <1>9 DEF SourceAt, At
  <2>2. At(strip, NewWindow, c + 1, 1)'
    BY <1>9 DEF At, w
  <2>3. (placing.source # NewWindow)' /\ (keyWindow = NewWindow)'
    BY <1>4, <1>5 DEF w, v
  <2> QED
    BY <1>5, <1>9, <2>1, <2>2, <2>3 DEF PlacedSo
<1> QED
  BY <1>9, <1>10 DEF IsStrip, Tidy

\* What is known where the window is alone in the column right of the source.
LEMMA AloneBeside ==
  ASSUME WInv, OnItsOwn, placing.pc \in {"focus", "check", "native", "column", "consume"}
  PROVE  /\ IsStrip(strip) /\ PlacedSo /\ IsPlacing(placing) /\ keyWindow = NewWindow /\ placing.source # NewWindow
         /\ NewWindow \in WmWindow /\ NewWindow # NoWmWindow
         /\ \E c \in Nat : SourceAt(c) /\ At(strip, NewWindow, c + 1, 1) /\ Len(strip[c + 1]) = 1
         /\ placing.pc = "native" => placing.side = "east"
         /\ placing.pc = "column" => placing.side = "west"
         /\ placing.pc = "consume" => Vertical
  BY WmAssumption DEF WInv, PlacedSo

\* Where nothing moves, everything stays.
LEMMA StaysPlaced ==
  ASSUME IsStrip(strip), strip' = strip, NEW c \in Nat, SourceAt(c), At(strip, NewWindow, c + 1, 1), Len(strip[c + 1]) = 1,
         placing'.source = placing.source, placing'.tile = placing.tile
  PROVE  /\ IsStrip(strip)' /\ SourceAt(c)' /\ At(strip, NewWindow, c + 1, 1)' /\ (Len(strip[c + 1]) = 1)'
  BY DEF IsStrip, Tidy, SourceAt, At

\* To focus it moves nothing.
LEMMA FocusRight ==
  ASSUME WInv, OnItsOwn, FocusTornOut
  PROVE  IsStrip(strip)' /\ PlacedSo'
<1>1. placing.pc = "focus"
  BY DEF FocusTornOut
<1>2. PICK c \in Nat : SourceAt(c) /\ At(strip, NewWindow, c + 1, 1) /\ Len(strip[c + 1]) = 1
  BY <1>1, AloneBeside
<1>3. strip' = strip /\ keyWindow' = NewWindow /\ placing'.pc = "check" /\ placing'.source = placing.source
      /\ placing'.tile = placing.tile
  BY <1>1, AloneBeside DEF FocusTornOut, Act, IsPlacing
<1>4. IsStrip(strip)' /\ SourceAt(c)' /\ At(strip, NewWindow, c + 1, 1)' /\ (Len(strip[c + 1]) = 1)'
  BY <1>1, <1>2, <1>3, AloneBeside, StaysPlaced
<1>5. (keyWindow = NewWindow /\ placing.source # NewWindow)'
  BY <1>1, <1>3, AloneBeside
<1> QED
  BY <1>3, <1>4, <1>5 DEF PlacedSo

\* Each side goes on with the commands for it: east is where it is.
LEMMA CheckRight ==
  ASSUME WInv, OnItsOwn, CheckFocused
  PROVE  IsStrip(strip)' /\ PlacedSo'
<1>1. placing.pc = "check" /\ placing.side \in WmSides /\ wm \in Adapters /\ Accepts(wm)
  BY DEF CheckFocused, WInv
<1>2. PICK c \in Nat : SourceAt(c) /\ At(strip, NewWindow, c + 1, 1) /\ Len(strip[c + 1]) = 1
  BY <1>1, AloneBeside
<1>3. FocusedRecord \notin {NoWmWindow, placing.source}
  BY <1>1, NiriFocus, AloneBeside
<1>4. PlanTearOut(wm, placing.side) = (IF placing.side = "east" THEN "native" ELSE "composed")
      /\ (placing.side # "east" => wm.composer)
  BY <1>1, PlansAreBacked DEF OnItsOwn
<1>5. /\ strip' = strip /\ keyWindow' = NewWindow /\ placing'.source = placing.source /\ placing'.tile = placing.tile
      /\ placing'.side = placing.side
      /\ placing'.pc = IF placing.side = "east" THEN "native" ELSE IF placing.side = "west" THEN "column" ELSE "consume"
  BY <1>1, <1>3, <1>4, AloneBeside DEF CheckFocused, Act, IsPlacing
<1>6. IsStrip(strip)' /\ SourceAt(c)' /\ At(strip, NewWindow, c + 1, 1)' /\ (Len(strip[c + 1]) = 1)'
  BY <1>1, <1>2, <1>5, AloneBeside, StaysPlaced
<1>7. (keyWindow = NewWindow /\ placing.source # NewWindow)'
  BY <1>1, <1>5, AloneBeside
<1>8. /\ (placing.pc = "native" => placing.side = "east")' /\ (placing.pc = "column" => placing.side = "west")'
      /\ (placing.pc = "consume" => Vertical)' /\ (placing.pc \in {"native", "column", "consume"})'
  BY <1>1, <1>5 DEF Vertical, WmSides
<1> QED
  BY <1>6, <1>7, <1>8 DEF PlacedSo

\* Beside, by where the two are.
LEMMA BesideByPlace ==
  ASSUME NEW st, IsStrip(st), NEW w, NEW v, NEW side, NEW c, NEW t, NEW d, NEW u, At(st, w, c, t), At(st, v, d, u),
         \/ side = "west" /\ d = c - 1
         \/ side = "east" /\ d = c + 1
         \/ side = "north" /\ d = c /\ u = t - 1
         \/ side = "south" /\ d = c /\ u = t + 1
  PROVE  Beside(st, w, v, side)
<1>1. ColumnOf(st, w) = c /\ TileOf(st, w) = t /\ ColumnOf(st, v) = d /\ TileOf(st, v) = u
  BY Found
<1> QED
  BY <1>1 DEF Beside

\* A window alone in its column that is consumed into the next one.
LEMMA Consumed ==
  ASSUME NEW st, IsStrip(st), NEW w, NEW c, At(st, w, c, 1), Len(st[c]) = 1, NEW side \in {"west", "east"},
         NEW v, NEW d, NEW t, At(st, v, d, t), d # c
  PROVE  /\ Next1(c, side) \notin DOMAIN st => ConsumeOrExpel(st, w, side) = st
         /\ Next1(c, side) \in DOMAIN st =>
              LET m == IF side = "west" THEN c - 1 ELSE c
              IN  /\ IsStrip(ConsumeOrExpel(st, w, side))
                  /\ At(ConsumeOrExpel(st, w, side), w, m, Len(st[Next1(c, side)]) + 1)
                  /\ At(ConsumeOrExpel(st, w, side), v, IF c < d THEN d - 1 ELSE d, t)
<1> DEFINE out == TakenOut(st, w)  m == IF side = "west" THEN c - 1 ELSE c  n == Next1(c, side)
           nw == ConsumeOrExpel(st, w, side)
<1>1. ColumnOf(st, w) = c
  BY Found
<1>2. c \in 1..Len(st) /\ Len(st) \in Nat /\ DOMAIN st = 1..Len(st) /\ d \in 1..Len(st) /\ w \in WmWindow
  BY AtTyped DEF At, IsStrip
<1>3. ~(Len(st[c]) > 1)
  OBVIOUS
<1>4. n \notin DOMAIN st => nw = st
  BY <1>1, <1>3 DEF ConsumeOrExpel
<1>5. ASSUME n \in DOMAIN st
      PROVE  /\ IsStrip(nw) /\ At(nw, w, m, Len(st[n]) + 1) /\ At(nw, v, IF c < d THEN d - 1 ELSE d, t)
  <2>1. nw = Joined(out, m, w)
    BY <1>1, <1>3, <1>5 DEF ConsumeOrExpel, Joined, out
  <2>2. m = Shift(st, c, n) /\ n # c /\ n \in 1..Len(st)
    BY <1>2, <1>5 DEF Shift, Next1
  <2>3. IsStrip(out) /\ Absent(out, w) /\ m \in 1..Len(out) /\ out[m] = st[n]
    BY <2>2, OthersStay DEF Absent
  <2>4. Shift(st, c, d) \in 1..Len(out) /\ out[Shift(st, c, d)] = st[d]
    BY <1>2, OthersStay
  <2>5. Shift(st, c, d) = IF c < d THEN d - 1 ELSE d
    BY DEF Shift
  <2>6. At(out, v, IF c < d THEN d - 1 ELSE d, t)
    BY <2>4, <2>5 DEF At
  <2> HIDE DEF out, m, n, nw
  <2>7. IsStrip(nw) /\ At(nw, w, m, Len(out[m]) + 1) /\ \A x, e, u : At(out, x, e, u) => At(nw, x, e, u)
    BY <1>2, <2>1, <2>3, Joins
  <2> QED
    BY <2>3, <2>6, <2>7
<1> QED
  BY <1>4, <1>5

\* Toward the east it may take the next column with it, and stays right of its source.
LEMMA NativeRight ==
  ASSUME WInv, OnItsOwn, PlaceNatively
  PROVE  IsStrip(strip)' /\ PlacedSo'
<1> DEFINE w == NewWindow  v == placing.source  nw == ConsumeOrExpel(strip, w, "east")
<1>1. placing.pc = "native"
  BY DEF PlaceNatively
<1>2. PICK c \in Nat : SourceAt(c) /\ At(strip, w, c + 1, 1) /\ Len(strip[c + 1]) = 1
  BY <1>1, AloneBeside
<1>3. IsStrip(strip) /\ placing.side = "east" /\ keyWindow = w /\ w # NoWmWindow /\ IsPlacing(placing)
  BY <1>1, AloneBeside
<1>4. strip' = nw /\ placing'.pc = "ended" /\ placing'.source = v /\ placing'.side = "east"
  BY <1>3 DEF PlaceNatively, Act, MoveDirection, OnItsOwn, IsPlacing
<1> HIDE DEF nw, w, v
<1>5. At(strip, v, c, placing.tile)
  BY <1>2 DEF SourceAt, v
<1>6. IsStrip(nw) /\ (\E u : At(nw, w, c + 1, u)) /\ At(nw, v, c, placing.tile)
  <2> DEFINE k == c + 1
  <2>1. ~(k < c) /\ c # k /\ c \in Nat
    OBVIOUS
  <2> HIDE DEF k
  <2>2. At(strip, w, k, 1) /\ Len(strip[k]) = 1
    BY <1>2 DEF k
  <2>3. CASE Next1(k, "east") \notin DOMAIN strip
    <3>1. nw = strip
      BY <1>3, <1>5, <2>1, <2>2, <2>3, Consumed DEF nw
    <3> QED
      BY <1>3, <1>5, <2>2, <3>1 DEF k
  <2>4. CASE Next1(k, "east") \in DOMAIN strip
    <3>1. /\ IsStrip(nw) /\ At(nw, w, IF "east" = "west" THEN k - 1 ELSE k, Len(strip[Next1(k, "east")]) + 1)
          /\ At(nw, v, IF k < c THEN c - 1 ELSE c, placing.tile)
      BY <1>3, <1>5, <2>1, <2>2, <2>4, Consumed DEF nw
    <3> QED
      BY <2>1, <3>1 DEF k
  <2> QED
    BY <2>3, <2>4
<1>7. Beside(nw, v, w, "east")
  BY <1>6, BesideByPlace
<1> QED
  BY <1>4, <1>6, <1>7 DEF PlacedSo, IsStrip, Tidy, Beside, ColumnOf, w, v

\* Toward the west the two columns change places.
LEMMA ColumnRight ==
  ASSUME WInv, OnItsOwn, PlaceColumn
  PROVE  IsStrip(strip)' /\ PlacedSo'
<1> DEFINE w == NewWindow  v == placing.source  nw == MoveColumn(strip, w, "west")
<1>1. placing.pc = "column"
  BY DEF PlaceColumn
<1>2. PICK c \in Nat : SourceAt(c) /\ At(strip, w, c + 1, 1) /\ Len(strip[c + 1]) = 1
  BY <1>1, AloneBeside
<1>3. IsStrip(strip) /\ placing.side = "west" /\ keyWindow = w /\ w # NoWmWindow /\ IsPlacing(placing)
  BY <1>1, AloneBeside
<1>4. strip' = nw /\ placing'.pc = "ended" /\ placing'.source = v /\ placing'.side = "west"
  BY <1>3 DEF PlaceColumn, Act, IsPlacing
<1>5. At(strip, v, c, placing.tile) /\ ColumnOf(strip, w) = c + 1 /\ c \in 1..Len(strip) /\ c + 1 \in 1..Len(strip)
  BY <1>2, <1>3, Found DEF SourceAt, At
<1>6. nw = SwappedColumns(strip, c + 1, c)
  <2>1. (c + 1) - 1 = c /\ c \in DOMAIN strip
    BY <1>3, <1>5 DEF IsStrip
  <2> QED
    BY <1>5, <2>1 DEF MoveColumn, Next1, SwappedColumns
<1> HIDE DEF nw, w, v
<1>7. IsStrip(nw) /\ At(nw, w, c, 1) /\ At(nw, v, c + 1, placing.tile)
  <2> DEFINE k == c + 1
  <2>1. c # k /\ k \in 1..Len(strip) /\ c \in 1..Len(strip)
    BY <1>5
  <2> HIDE DEF k
  <2>2. At(strip, w, k, 1) /\ nw = SwappedColumns(strip, k, c)
    BY <1>2, <1>6 DEF k
  <2>3. IsStrip(nw) /\ \A x, d, u : At(strip, x, d, u) => At(nw, x, IF d = k THEN c ELSE IF d = c THEN k ELSE d, u)
    BY <1>3, <2>1, <2>2, ColumnsSwapped
  <2> QED
    BY <1>5, <2>1, <2>2, <2>3 DEF k
<1>8. Beside(nw, v, w, "west")
  <2>1. c = (c + 1) - 1
    OBVIOUS
  <2> QED
    BY <1>7, <2>1, BesideByPlace
<1> QED
  BY <1>4, <1>7, <1>8 DEF PlacedSo, IsStrip, Tidy, Beside, ColumnOf, w, v

\* North and south it goes to the bottom of the source's column, below the source.
LEMMA ConsumeRight ==
  ASSUME WInv, OnItsOwn, ConsumeIntoColumn
  PROVE  IsStrip(strip)' /\ PlacedSo'
<1> DEFINE w == NewWindow  v == placing.source  nw == ConsumeOrExpel(strip, w, "west")
<1>1. placing.pc = "consume"
  BY DEF ConsumeIntoColumn
<1>2. PICK c \in Nat : SourceAt(c) /\ At(strip, w, c + 1, 1) /\ Len(strip[c + 1]) = 1
  BY <1>1, AloneBeside
<1>3. IsStrip(strip) /\ Vertical /\ keyWindow = w /\ w # NoWmWindow /\ IsPlacing(placing)
  BY <1>1, AloneBeside
<1>4. /\ strip' = nw /\ placing'.pc = "tile" /\ placing'.source = v /\ placing'.side = placing.side
      /\ placing'.tile = placing.tile /\ keyWindow' = w
  BY <1>3 DEF ConsumeIntoColumn, Act, IsPlacing
<1> HIDE DEF nw, w, v
<1>5. /\ At(strip, v, c, placing.tile) /\ c \in 1..Len(strip) /\ placing.tile \in 1..Len(strip[c])
      /\ DOMAIN strip = 1..Len(strip) /\ strip[c] \in Seq(WmWindow)
  BY <1>2, <1>3, AtTyped DEF SourceAt, v, At, IsStrip
<1>6. IsStrip(nw) /\ At(nw, w, c, Len(strip[c]) + 1) /\ At(nw, v, c, placing.tile)
  <2> DEFINE k == c + 1
  <2>1. ~(k < c) /\ c # k /\ c \in Nat /\ k - 1 = c /\ Next1(k, "west") = c
    BY DEF Next1
  <2> HIDE DEF k
  <2>2. At(strip, w, k, 1) /\ Len(strip[k]) = 1
    BY <1>2 DEF k
  <2>3. /\ IsStrip(nw) /\ At(nw, w, k - 1, Len(strip[Next1(k, "west")]) + 1)
        /\ At(nw, v, IF k < c THEN c - 1 ELSE c, placing.tile)
    BY <1>3, <1>5, <2>1, <2>2, Consumed DEF nw
  <2> QED
    BY <2>1, <2>3
<1>7. Len(strip[c]) + 1 > placing.tile /\ Len(strip[c]) + 1 \in Nat
  BY <1>5
<1>8. (\E d, n \in Nat : SourceAt(d) /\ At(strip, NewWindow, d, n) /\ n > placing.tile)'
  <2>1. SourceAt(c)' /\ At(strip, NewWindow, c, Len(strip[c]) + 1)' = At(nw, w, c, Len(nw[c]) + 1)
    BY <1>4, <1>6 DEF SourceAt, At, v, w
  <2> DEFINE n == Len(strip[c]) + 1
  <2>2. n \in Nat /\ n > placing.tile /\ At(nw, w, c, n)
    BY <1>6, <1>7
  <2> HIDE DEF n
  <2>3. n > placing'.tile /\ At(strip', NewWindow, c, n)
    BY <1>4, <2>2 DEF w
  <2> QED
    BY <2>1, <2>2, <2>3 DEF SourceAt, At
<1>9. Vertical'
  BY <1>3, <1>4 DEF Vertical
<1> QED
  BY <1>4, <1>6, <1>8, <1>9 DEF PlacedSo, IsStrip, Tidy, w

\* It is read where it is, and goes up by as many tiles as lie between.
LEMMA ReadTileRight ==
  ASSUME WInv, OnItsOwn, ReadTile
  PROVE  IsStrip(strip)' /\ PlacedSo'
<1>1. placing.pc = "tile" /\ IsStrip(strip) /\ PlacedSo /\ IsPlacing(placing)
  BY DEF ReadTile, WInv
<1>2. Vertical /\ keyWindow = NewWindow /\ \E c, n \in Nat : SourceAt(c) /\ At(strip, NewWindow, c, n) /\ n > placing.tile
  BY <1>1 DEF PlacedSo
<1>3. PICK c, n \in Nat : SourceAt(c) /\ At(strip, NewWindow, c, n) /\ n > placing.tile
  BY <1>2
<1>4. TileOf(strip, NewWindow) = n /\ NewWindow # NoWmWindow
  BY <1>1, <1>3, Found, WmAssumption
<1>5. placing.tile \in Nat
  BY <1>1, <1>3, AtTyped DEF SourceAt
<1>6. /\ strip' = strip /\ keyWindow' = NewWindow /\ placing'.pc = "up" /\ placing'.moves = Ups(n)
      /\ placing'.side = placing.side /\ placing'.source = placing.source /\ placing'.tile = placing.tile
  BY <1>1, <1>2, <1>4 DEF ReadTile, IsPlacing
<1>7. Ups(n) \in Nat /\ TargetTile + Ups(n) = n /\ n # placing.tile /\ TargetTile' = TargetTile
  BY <1>2, <1>3, <1>5, <1>6 DEF Ups, TargetTile, Vertical
<1>8. At(strip, NewWindow, c, TargetTile + placing.moves)'
  BY <1>3, <1>6, <1>7 DEF At
<1>9. (TargetTile + placing.moves = n /\ n # placing.tile)' /\ At(strip, placing.source, c, placing.tile)'
  BY <1>3, <1>6, <1>7 DEF SourceAt, At
<1> QED
  BY <1>1, <1>2, <1>5, <1>6, <1>7, <1>8, <1>9 DEF PlacedSo, IsStrip, Tidy, Vertical

\* One tile up: past another window, or, last toward the north, past its source.
LEMMA MoveUpRight ==
  ASSUME WInv, OnItsOwn, MoveUp
  PROVE  IsStrip(strip)' /\ PlacedSo'
<1> DEFINE w == NewWindow  v == placing.source  m == placing.moves  k == TargetTile + m  s == placing.tile
<1>1. placing.pc = "up" /\ IsStrip(strip) /\ PlacedSo /\ IsPlacing(placing)
  BY DEF MoveUp, WInv
<1>2. /\ Vertical /\ keyWindow = w /\ m \in Nat /\ s \in Nat
      /\ \E c \in Nat : At(strip, w, c, k) /\ At(strip, v, c, IF k = s THEN s + 1 ELSE s)
  BY <1>1 DEF PlacedSo
<1>3. PICK c \in Nat : At(strip, w, c, k) /\ At(strip, v, c, IF k = s THEN s + 1 ELSE s)
  BY <1>2
<1>4. w # NoWmWindow /\ ColumnOf(strip, w) = c /\ TileOf(strip, w) = k
  BY <1>1, <1>3, Found, WmAssumption
<1>5. (placing.side = "north" /\ TargetTile = s) \/ (placing.side = "south" /\ TargetTile = s + 1)
  BY <1>2 DEF Vertical, TargetTile
<1>6. CASE m = 0
  <2>1. strip' = strip /\ placing'.pc = "ended" /\ placing'.side = placing.side /\ placing'.source = v
    BY <1>1, <1>6 DEF MoveUp, Act, IsPlacing
  <2>2. Beside(strip, v, w, placing.side)
    <3>1. CASE placing.side = "north" /\ TargetTile = s
      <4>1. k = s /\ s = (s + 1) - 1
        BY <1>2, <1>6, <3>1
      <4>2. At(strip, w, c, s) /\ At(strip, v, c, s + 1)
        BY <1>3, <4>1
      <4> QED
        BY <1>1, <3>1, <4>1, <4>2, BesideByPlace
    <3>2. CASE placing.side = "south" /\ TargetTile = s + 1
      <4>1. k = s + 1 /\ k # s
        BY <1>2, <1>6, <3>2
      <4>2. At(strip, w, c, s + 1) /\ At(strip, v, c, s)
        BY <1>3, <4>1
      <4> QED
        BY <1>1, <3>2, <4>2, BesideByPlace
    <3> QED
      BY <1>5, <3>1, <3>2
  <2>3. Beside(strip', placing'.source, w, placing'.side)
    BY <2>1, <2>2, Zenon
  <2>4. Beside(strip, placing.source, NewWindow, placing.side)'
    BY <2>3, Zenon DEF Beside, ColumnOf, TileOf
  <2>5. IsStrip(strip)'
    BY <1>1, <2>1 DEF IsStrip, Tidy
  <2> QED
    BY <2>1, <2>4, <2>5 DEF PlacedSo
<1>7. CASE m # 0
  <2>1. k # s /\ k - 1 \in Nat /\ k \in Nat /\ k - 1 >= s /\ TargetTile + (m - 1) = k - 1 /\ m - 1 \in Nat
    BY <1>2, <1>5, <1>7
  <2>2. At(strip, v, c, s)
    BY <1>3, <2>1
  <2>3. /\ c \in 1..Len(strip) /\ k \in 1..Len(strip[c]) /\ strip[c] \in Seq(WmWindow) /\ strip[c][k] = w
        /\ DOMAIN strip[c] = 1..Len(strip[c]) /\ Len(strip[c]) \in Nat
    BY <1>1, <1>3 DEF At, IsStrip
  <2>4. s \in 1..Len(strip[c]) /\ strip[c][s] = v
    BY <2>2 DEF At
  <2> DEFINE u == k - 1  nw == MoveTile(strip, w, "north")
  <2>5. u \in 1..Len(strip[c]) /\ u # k
    BY <2>1, <2>3, <2>4
  <2>6. nw = SwappedTiles(strip, c, k, u)
    BY <1>4, <2>3, <2>5 DEF MoveTile, SwappedTiles
  <2>7. /\ strip' = nw /\ keyWindow' = w /\ placing'.pc = "up" /\ placing'.moves = m - 1 /\ placing'.side = placing.side
        /\ placing'.source = v /\ placing'.tile = s
    BY <1>1, <1>2, <1>4, <1>7 DEF MoveUp, IsPlacing
  <2> HIDE DEF nw, u, k, w, v, m
  <2>8. /\ IsStrip(nw) /\ At(nw, strip[c][k], c, u) /\ At(nw, strip[c][u], c, k)
        /\ \A x \in 1..Len(strip[c]) \ {k, u} : At(nw, strip[c][x], c, x)
    BY <1>1, <2>3, <2>5, <2>6, TilesSwapped
  <2>9. At(nw, w, c, u)
    BY <2>3, <2>8
  <2>10. At(nw, v, c, IF u = s THEN s + 1 ELSE s)
    <3>1. CASE u = s
      <4>1. s + 1 = k
        BY <1>2, <2>1, <3>1 DEF u
      <4> QED
        BY <2>4, <2>8, <3>1, <4>1
    <3>2. CASE u # s
      BY <2>1, <2>4, <2>8, <3>2
    <3> QED
      BY <3>1, <3>2
  <2>11. (TargetTile + placing.moves)' = u
    <3>1. TargetTile' = TargetTile
      BY <2>7 DEF TargetTile
    <3> QED
      BY <2>1, <2>7, <3>1 DEF u
  <2>12. /\ At(strip, NewWindow, c, TargetTile + placing.moves)'
         /\ At(strip, placing.source, c, IF TargetTile + placing.moves = placing.tile THEN placing.tile + 1 ELSE placing.tile)'
    BY <2>7, <2>9, <2>10, <2>11 DEF At, w
  <2>13. (Vertical /\ placing.moves \in Nat /\ placing.tile \in Nat /\ keyWindow = NewWindow /\ placing.pc = "up")'
    BY <1>2, <2>1, <2>7 DEF Vertical, w
  <2> QED
    BY <2>7, <2>8, <2>12, <2>13 DEF PlacedSo, IsStrip, Tidy
<1> QED
  BY <1>6, <1>7

\* A request that fails ends the placement where it is.
LEMMA FailsRight ==
  ASSUME WInv, OnItsOwn, RequestFails
  PROVE  IsStrip(strip)' /\ PlacedSo'
<1>1. strip' = strip /\ placing'.pc = "failed" /\ IsStrip(strip) /\ keyWindow' = keyWindow
  BY DEF RequestFails, WInv, IsPlacing
<1>2. keyWindow = NewWindow
  BY DEF WInv, RequestFails, PlacedSo, Settled
<1> QED
  BY <1>1, <1>2 DEF PlacedSo, IsStrip, Tidy

\* Nothing has moved, and the placement is where it was.
SamePlace == /\ strip' = strip /\ keyWindow' = keyWindow /\ placing'.pc = placing.pc /\ placing'.side = placing.side
             /\ placing'.source = placing.source /\ placing'.tile = placing.tile /\ placing'.moves = placing.moves

\* Then what was known is still so.
LEMMA AllStays ==
  ASSUME IsStrip(strip), PlacedSo, SamePlace
  PROVE  IsStrip(strip)' /\ PlacedSo'
<1>1. IsStrip(strip)'
  BY DEF IsStrip, Tidy, SamePlace
<1>2. \A w : Absent(strip, w)' <=> Absent(strip, w)
  BY DEF Absent, At, SamePlace
<1>3. \A c : SourceAt(c)' <=> SourceAt(c)
  BY DEF SourceAt, At, SamePlace
<1>4. Beside(strip, placing.source, NewWindow, placing.side) => Beside(strip, placing.source, NewWindow, placing.side)'
  <2>1. SamePlace => (Beside(strip, placing.source, NewWindow, placing.side)
                      => Beside(strip', placing'.source, NewWindow, placing'.side))
    BY Zenon DEF SamePlace
  <2> QED
    BY <2>1, Zenon DEF Beside, ColumnOf, TileOf
<1>5. CASE placing.pc \in {"idle", "opening", "failed"}
  BY <1>2, <1>3, <1>5 DEF PlacedSo, SamePlace, Absent, At
<1>6. CASE placing.pc \in {"focus", "check", "native", "column", "consume"}
  BY <1>3, <1>6 DEF PlacedSo, SamePlace, At, Vertical
<1>7. CASE placing.pc = "tile"
  BY <1>3, <1>7 DEF PlacedSo, SamePlace, At, Vertical
<1>8. CASE placing.pc = "up"
  <2>1. TargetTile' = TargetTile
    BY DEF SamePlace, TargetTile
  <2> QED
    BY <1>8, <2>1 DEF PlacedSo, SamePlace, At, Vertical
<1>9. CASE placing.pc = "ended"
  BY <1>4, <1>9 DEF PlacedSo, SamePlace
<1> QED
  BY <1>5, <1>6, <1>7, <1>8, <1>9 DEF PlacedSo

\* What does not disturb leaves the focus and the source's row.
LEMMA NotDisturbed ==
  ASSUME WInv, NEW st, NEW w, Others(st, w), ~placing'.disturbed
  PROVE  /\ w = keyWindow /\ SourceRow(st) = SourceRow(strip) /\ strip' = st /\ keyWindow' = w
         /\ placing.pc \notin {"idle", "ended"}
         /\ placing'.pc = placing.pc /\ placing'.side = placing.side
         /\ placing'.source = placing.source /\ placing'.tile = placing.tile /\ placing'.moves = placing.moves
  BY DEF Others, WInv, IsPlacing, Settled

\* A window that closes in another column moves a column, if at all, to the west.
LEMMA ColumnMoves ==
  ASSUME IsStrip(strip), NEW w, NEW d, NEW u, At(strip, w, d, u), NEW c \in 1..Len(strip), c # d
  PROVE  /\ Shift(strip, d, c) \in Nat
         /\ \A x, t : At(strip, x, c, t) => At(TakenOut(strip, w), x, Shift(strip, d, c), t)
         /\ TakenOut(strip, w)[Shift(strip, d, c)] = strip[c]
<1>1. Shift(strip, d, c) \in 1..Len(TakenOut(strip, w)) /\ TakenOut(strip, w)[Shift(strip, d, c)] = strip[c]
  BY OthersStay
<1>2. ASSUME NEW x, NEW t, At(strip, x, c, t) PROVE At(TakenOut(strip, w), x, Shift(strip, d, c), t)
  BY <1>1, <1>2 DEF At
<1> QED
  BY <1>1, <1>2

\* A window that closes, but not in the source's column, leaves the two side by side.
LEMMA ClosesRight ==
  ASSUME WInv, OnItsOwn, ~placing'.disturbed, NEW w \in OnStrip \ {NewWindow},
         Others(TakenOut(strip, w), IF w = keyWindow THEN NoWmWindow ELSE keyWindow)
  PROVE  IsStrip(strip)' /\ PlacedSo'
<1> DEFINE out == TakenOut(strip, w)  v == placing.source
<1>1. IsStrip(strip) /\ PlacedSo
  BY DEF WInv
<1>2. PICK d, u \in Nat : At(strip, w, d, u)
  BY <1>1, Somewhere DEF OnStrip, IsStrip
<1>3. w \in WmWindow /\ w # NoWmWindow /\ w # NewWindow
  BY <1>1, <1>2, AtTyped, WmAssumption
<1>4. /\ w # keyWindow /\ SourceRow(out) = SourceRow(strip) /\ strip' = out /\ keyWindow' = keyWindow
      /\ placing.pc \notin {"idle", "ended"}
      /\ placing'.pc = placing.pc /\ placing'.side = placing.side
      /\ placing'.source = v /\ placing'.tile = placing.tile /\ placing'.moves = placing.moves
  BY <1>3, NotDisturbed
<1>5. IsStrip(out) /\ (Absent(strip, NewWindow) => Absent(out, NewWindow))
  BY <1>1, <1>2, OthersStay
<1>6. \A c, t : At(strip, v, c, t) => c # d /\ c \in 1..Len(strip) /\ c \in Nat
  <2>1. ASSUME NEW c, NEW t, At(strip, v, c, t) PROVE c # d /\ c \in 1..Len(strip) /\ c \in Nat
    <3>1. c # d
      BY <1>1, <1>2, <1>4, <2>1, RowTells
    <3> QED
      BY <1>1, <2>1, <3>1 DEF At, IsStrip
  <2> QED
    BY <2>1
<1>7. \A c \in 1..Len(strip) : c # d =>
        /\ Shift(strip, d, c) \in Nat
        /\ \A x, t : At(strip, x, c, t) => At(out, x, Shift(strip, d, c), t)
        /\ out[Shift(strip, d, c)] = strip[c]
  BY <1>1, <1>2, ColumnMoves
<1> HIDE DEF out
<1>8. IsStrip(strip)'
  BY <1>4, <1>5 DEF IsStrip, Tidy
<1>9. CASE placing.pc = "opening"
  <2>1. Absent(strip, NewWindow) /\ keyWindow = v /\ \E c \in Nat : SourceAt(c)
    BY <1>1, <1>9 DEF PlacedSo
  <2>2. PICK c \in Nat : At(strip, v, c, placing.tile)
    BY <2>1 DEF SourceAt
  <2>3. PICK e \in Nat : At(out, v, e, placing.tile)
    BY <1>6, <1>7, <2>2
  <2>4. Absent(out, NewWindow)
    BY <1>5, <2>1
  <2>5. Absent(strip, NewWindow)'
    BY <1>4, <2>4 DEF Absent, At
  <2>6. SourceAt(e)'
    BY <1>4, <2>3 DEF At, SourceAt
  <2>7. (\E x \in Nat : SourceAt(x))'
    BY <2>6
  <2> QED
    BY <1>4, <1>8, <1>9, <2>1, <2>5, <2>7 DEF PlacedSo
<1>10. CASE placing.pc \in {"focus", "check", "native", "column", "consume"}
  <2>1. /\ keyWindow = NewWindow /\ v # NewWindow
        /\ \E c \in Nat : SourceAt(c) /\ At(strip, NewWindow, c + 1, 1) /\ Len(strip[c + 1]) = 1
    BY <1>10, AloneBeside
  <2>2. PICK c \in Nat : At(strip, v, c, placing.tile) /\ At(strip, NewWindow, c + 1, 1) /\ Len(strip[c + 1]) = 1
    BY <2>1 DEF SourceAt
  <2>3. c # d /\ c \in 1..Len(strip)
    BY <1>6, <2>2
  <2>4. c + 1 # d /\ c + 1 \in 1..Len(strip)
    <3>1. CASE c + 1 = d
      <4>1. u \in 1..Len(strip[c + 1]) /\ strip[c + 1][u] = w /\ strip[c + 1][1] = NewWindow
        BY <1>2, <2>2, <3>1 DEF At
      <4>2. u = 1
        BY <2>2, <4>1
      <4> QED
        BY <1>3, <4>1, <4>2
    <3>2. c + 1 \in 1..Len(strip)
      BY <2>2 DEF At
    <3> QED
      BY <3>1, <3>2
  <2>5. Shift(strip, d, c + 1) = Shift(strip, d, c) + 1
    BY <1>2, <2>3, <2>4 DEF Shift
  <2>13. /\ Shift(strip, d, c) \in Nat /\ At(out, v, Shift(strip, d, c), placing.tile)
         /\ At(out, NewWindow, Shift(strip, d, c + 1), 1) /\ out[Shift(strip, d, c + 1)] = strip[c + 1]
    BY <1>7, <2>2, <2>3, <2>4
  <2>6. PICK e \in Nat : e = Shift(strip, d, c) /\ At(out, v, e, placing.tile)
    BY <2>13
  <2>7. At(out, NewWindow, e + 1, 1) /\ out[e + 1] = strip[c + 1]
    BY <2>5, <2>6, <2>13
  <2>8. Len(out[e + 1]) = 1
    BY <2>2, <2>7
  <2>9. SourceAt(e)' /\ At(strip, NewWindow, e + 1, 1)' /\ (Len(strip[e + 1]) = 1)'
    BY <1>4, <2>6, <2>7, <2>8 DEF SourceAt, At
  <2>10. (\E x \in Nat : SourceAt(x) /\ At(strip, NewWindow, x + 1, 1) /\ Len(strip[x + 1]) = 1)'
    BY <2>6, <2>9
  <2>11. /\ placing.pc = "native" => placing.side = "east"
         /\ placing.pc = "column" => placing.side = "west"
         /\ placing.pc = "consume" => Vertical
    BY <1>10, AloneBeside
  <2>12. /\ (placing.pc = "native" => placing.side = "east")' /\ (placing.pc = "column" => placing.side = "west")'
         /\ (placing.pc = "consume" => Vertical)' /\ (keyWindow = NewWindow)' /\ (placing.source # NewWindow)'
         /\ (placing.pc \in {"focus", "check", "native", "column", "consume"})'
    BY <1>4, <1>10, <2>1, <2>11 DEF Vertical, v
  <2> QED
    BY <1>8, <2>10, <2>12 DEF PlacedSo
<1>11. CASE placing.pc = "tile"
  <2>1. Vertical /\ keyWindow = NewWindow /\ \E c, n \in Nat : SourceAt(c) /\ At(strip, NewWindow, c, n) /\ n > placing.tile
    BY <1>1, <1>11 DEF PlacedSo
  <2>2. PICK c, n \in Nat : At(strip, v, c, placing.tile) /\ At(strip, NewWindow, c, n) /\ n > placing.tile
    BY <2>1 DEF SourceAt
  <2>3. PICK e \in Nat : At(out, v, e, placing.tile) /\ At(out, NewWindow, e, n)
    BY <1>6, <1>7, <2>2
  <2>4. SourceAt(e)' /\ At(strip, NewWindow, e, n)' /\ (n > placing.tile)'
    BY <1>4, <2>2, <2>3 DEF SourceAt, At
  <2>5. (\E x, y \in Nat : SourceAt(x) /\ At(strip, NewWindow, x, y) /\ y > placing.tile)'
    BY <2>3, <2>4
  <2>6. (Vertical /\ keyWindow = NewWindow /\ placing.pc = "tile")'
    BY <1>4, <1>11, <2>1 DEF Vertical
  <2> QED
    BY <1>8, <2>5, <2>6 DEF PlacedSo
<1>12. CASE placing.pc = "up"
  <2> DEFINE k == TargetTile + placing.moves
             At2(st, c) == /\ At(st, NewWindow, c, k)
                           /\ At(st, v, c, IF k = placing.tile THEN placing.tile + 1 ELSE placing.tile)
  <2>1. /\ Vertical /\ keyWindow = NewWindow /\ placing.moves \in Nat /\ placing.tile \in Nat
        /\ \E c \in Nat : At2(strip, c)
    BY <1>1, <1>12 DEF PlacedSo
  <2>2. PICK c \in Nat : At2(strip, c)
    BY <2>1
  <2>3. PICK e \in Nat : At2(out, e)
    BY <1>6, <1>7, <2>2
  <2>4. TargetTile' = TargetTile
    BY <1>4 DEF TargetTile
  <2>5. /\ At(strip, NewWindow, e, TargetTile + placing.moves)'
        /\ At(strip, placing.source, e, IF TargetTile + placing.moves = placing.tile THEN placing.tile + 1 ELSE placing.tile)'
    BY <1>4, <2>3, <2>4 DEF At
  <2>6. (Vertical /\ keyWindow = NewWindow /\ placing.pc = "up" /\ placing.moves \in Nat /\ placing.tile \in Nat)'
    BY <1>4, <1>12, <2>1 DEF Vertical
  <2> QED
    BY <1>8, <2>3, <2>5, <2>6 DEF PlacedSo
<1>13. CASE placing.pc = "failed"
  BY <1>1, <1>4, <1>8, <1>13 DEF PlacedSo
<1> QED
  BY <1>1, <1>4, <1>9, <1>10, <1>11, <1>12, <1>13 DEF PlacedSo

\* What the user, the applications and another call do without disturbing it.
LEMMA EventRight ==
  ASSUME WInv, OnItsOwn, ~placing'.disturbed, UserFocusesOnStrip \/ ClosesOnStrip \/ OtherCallMoves
  PROVE  IsStrip(strip)' /\ PlacedSo'
<1>1. IsStrip(strip) /\ PlacedSo
  BY DEF WInv
<1>2. CASE UserFocusesOnStrip
  <2>1. PICK w : Others(strip, w)
    BY <1>2 DEF UserFocusesOnStrip
  <2>2. SamePlace
    BY <2>1, NotDisturbed DEF SamePlace
  <2> QED
    BY <1>1, <2>2, AllStays
<1>3. CASE ClosesOnStrip
  BY <1>3, ClosesRight DEF ClosesOnStrip
<1>4. CASE OtherCallMoves
  <2>1. PICK w \in OnStrip, d \in WmSides : w # NewWindow /\ Others(MoveDirection(strip, w, d), w)
    BY <1>4 DEF OtherCallMoves
  <2>2. /\ w = keyWindow /\ SourceRow(MoveDirection(strip, w, d)) = SourceRow(strip)
        /\ strip' = MoveDirection(strip, w, d) /\ keyWindow' = w /\ placing.pc \notin {"idle", "ended"}
        /\ placing'.pc = placing.pc /\ placing'.side = placing.side
        /\ placing'.source = placing.source /\ placing'.tile = placing.tile /\ placing'.moves = placing.moves
    BY <2>1, NotDisturbed
  <2>3. CASE placing.pc = "opening"
    <3>1. w = placing.source /\ \E c \in Nat : SourceAt(c)
      BY <1>1, <2>2, <2>3 DEF PlacedSo
    <3>2. PICK c \in Nat : At(strip, placing.source, c, placing.tile)
      BY <3>1 DEF SourceAt
    <3>3. placing.source \in WmWindow
      BY <1>1, <3>2, AtTyped
    <3>4. MoveDirection(strip, w, d) = strip
      BY <1>1, <2>2, <3>1, <3>2, <3>3, MovedRowTells
    <3>5. SamePlace
      BY <2>2, <3>4 DEF SamePlace
    <3> QED
      BY <1>1, <3>5, AllStays
  <2>4. placing.pc # "opening" => keyWindow = NewWindow
    BY <1>1, <2>2 DEF PlacedSo
  <2> QED
    BY <2>1, <2>2, <2>3, <2>4
<1> QED
  BY <1>2, <1>3, <1>4

\* At first nothing is under way and the strip is tidy.
LEMMA WmInitInv == WmInit => WInv
<1> SUFFICES ASSUME WmInit PROVE WInv
  OBVIOUS
<1>1. placing = NoPlace /\ wm \in Adapters /\ Accepts(wm) /\ strip \in Strips /\ keyWindow \in OnStrip \union {NoWmWindow}
  BY DEF WmInit, Connects
<1>2. strip \in Seq(Seq(WmWindow \ {NewWindow})) /\ Tidy(strip)
  BY <1>1, StripsAssumption
<1>3. strip \in Seq(Seq(WmWindow)) /\ IsStrip(strip)
  BY <1>2 DEF IsStrip
<1>4. Absent(strip, NewWindow)
  BY <1>2 DEF Absent, At
<1>5. keyWindow # NoWmWindow => ~Absent(strip, keyWindow)
  BY <1>1, <1>3, Somewhere DEF OnStrip, Absent
<1>6. IsPlacing(placing) /\ placing.pc = "idle" /\ placing.side \in WmSides
  BY <1>1 DEF IsPlacing, NoPlace, WmSides
<1> QED
  BY <1>1, <1>3, <1>4, <1>5, <1>6 DEF WInv, PlacedSo

\* The steps of a placement, and that it never finds its adapter without a composer.
LEMMA StepsOn ==
  ASSUME WInv, [WmNext]_wmVars
  PROVE  /\ placing'.pc \in {"idle", "opening", "focus", "check", "native", "column", "consume", "tile", "up", "ended", "failed"}
         /\ placing'.pc = "idle" => placing' = placing
<1>0. /\ IsPlacing(placing)
      /\ placing.pc \in {"idle", "opening", "focus", "check", "native", "column", "consume", "tile", "up", "ended", "failed"}
  BY DEF WInv
<1>1. ASSUME NEW st, NEW w, NEW pc, Act(st, w, pc) PROVE placing'.pc = pc
  BY <1>0, <1>1 DEF Act, IsPlacing
<1>2. ASSUME NEW d \in WmSides, BeginTearOut(d) PROVE placing'.pc = "opening"
  BY <1>2 DEF BeginTearOut, NoPlace
<1>3. CASE OpensWindow
  BY <1>1, <1>3 DEF OpensWindow
<1>4. CASE FocusTornOut
  BY <1>1, <1>4 DEF FocusTornOut
<1>5. CASE CheckFocused
  <2> DEFINE plan == PlanTearOut(wm, placing.side)
             pc == IF FocusedRecord \in {NoWmWindow, placing.source} \/ plan = "unsupported" THEN "ended"
                   ELSE IF plan = "native" THEN "native"
                   ELSE IF ~wm.composer THEN "missing"
                   ELSE IF placing.side \in {"west", "east"} THEN "column" ELSE "consume"
  <2>1. placing'.pc = pc
    BY <1>1, <1>5 DEF CheckFocused
  <2>2. (plan = "composed" => wm.composer) /\ plan \in {"native", "composed", "unsupported"}
    BY PlansAreBacked DEF WInv
  <2> HIDE DEF plan
  <2>3. pc \in {"ended", "native", "column", "consume"}
    BY <2>2
  <2> QED
    BY <2>1, <2>3
<1>6. CASE PlaceNatively \/ PlaceColumn \/ ConsumeIntoColumn
  BY <1>1, <1>6 DEF PlaceNatively, PlaceColumn, ConsumeIntoColumn
<1>7. CASE ReadTile
  BY <1>0, <1>1, <1>7 DEF ReadTile, IsPlacing
<1>8. CASE MoveUp
  BY <1>0, <1>1, <1>8 DEF MoveUp, IsPlacing
<1>9. CASE RequestFails
  BY <1>0, <1>9 DEF RequestFails, IsPlacing
<1>10. ASSUME NEW st, NEW w, Others(st, w) PROVE placing'.pc = placing.pc /\ placing.pc # "idle"
  BY <1>0, <1>10 DEF Others, IsPlacing
<1>11. CASE UserFocusesOnStrip \/ ClosesOnStrip \/ OtherCallMoves
  <2>1. \E st, w : Others(st, w)
    BY <1>11 DEF UserFocusesOnStrip, ClosesOnStrip, OtherCallMoves
  <2> QED
    BY <1>0, <1>10, <2>1
<1>12. CASE UNCHANGED wmVars
  BY <1>0, <1>12 DEF wmVars
<1> QED
  BY <1>2, <1>3, <1>4, <1>5, <1>6, <1>7, <1>8, <1>9, <1>11, <1>12 DEF WmNext

\* Every step keeps the invariant.
LEMMA WmStep == WInv /\ [WmNext]_wmVars => WInv'
<1> SUFFICES ASSUME WInv, [WmNext]_wmVars PROVE WInv'
  OBVIOUS
<1>1. /\ IsPlacing(placing)' /\ wm' = wm /\ wm' \in Adapters /\ Accepts(wm)' /\ placing'.side \in WmSides
      /\ ~placing'.disturbed => ~placing.disturbed
  BY PlacingStays
<1>2. /\ placing'.pc \in {"idle", "opening", "focus", "check", "native", "column", "consume", "tile", "up", "ended", "failed"}
      /\ placing'.pc = "idle" => placing' = placing
  BY StepsOn
<1>3. ASSUME OnItsOwn' PROVE IsStrip(strip)' /\ PlacedSo'
  <2>1. OnItsOwn /\ ~placing'.disturbed
    BY <1>1, <1>3 DEF OnItsOwn
  <2>2. CASE UNCHANGED wmVars
    BY <2>1, <2>2, AllStays DEF wmVars, SamePlace, WInv
  <2> QED
    BY <2>1, <2>2, BeginRight, OpensRight, FocusRight, CheckRight, NativeRight, ColumnRight, ConsumeRight, ReadTileRight,
       MoveUpRight, FailsRight, EventRight DEF WmNext
<1> QED
  BY <1>1, <1>2, <1>3 DEF WInv

\* A window torn out on niri ends right next to its source, on the side asked
\* for, unless meanwhile the focus moved or the source's own column changed; and
\* no adapter that connected lacks its composer: for any strip, any number of
\* windows and of events, and any of the adapters (niri.rs, compose_tear_out;
\* configured.rs, try_new).
THEOREM TornOutLandsBeside == WmSpec => []LandsBeside
<1>1. WInv => LandsBeside
  <2> SUFFICES ASSUME WInv PROVE LandsBeside
    OBVIOUS
  <2>1. placing.pc # "missing"
    BY DEF WInv
  <2>2. ASSUME placing.pc = "ended", wm.name = "niri", ~placing.disturbed
        PROVE  Beside(strip, placing.source, NewWindow, placing.side)
    BY <2>2 DEF WInv, OnItsOwn, PlacedSo
  <2> QED
    BY <2>1, <2>2 DEF LandsBeside
<1> QED
  BY <1>1, WmInitInv, WmStep, PTL DEF WmSpec

-----------------------------------------------------------------------------
(***************************************************************************)
(* Splits: what a change of a layout leaves in it.                         *)
(***************************************************************************)

\* Groups of panes of P, none of them empty; an empty layout is a closed one.
IsLayout(l, P) ==
  /\ l = [axis |-> l.axis, groups |-> l.groups] /\ l.groups \in Seq(Seq(P))
  /\ \A i \in 1..Len(l.groups) : l.groups[i] # <<>>
  /\ l.groups = <<>> => l = Closed

\* A pane of a layout is in one of its groups.
LEMMA InAGroup ==
  ASSUME NEW P, NEW l, IsLayout(l, P)
  PROVE  /\ \A p : p \in PanesOf(l) <=> \E i \in 1..Len(l.groups) : \E j \in 1..Len(l.groups[i]) : l.groups[i][j] = p
         /\ PanesOf(l) \subseteq P
         /\ l # Closed => PanesOf(l) # {}
         /\ PanesOf(Closed) = {}
<1>1. l.groups \in Seq(Seq(P)) /\ DOMAIN l.groups = 1..Len(l.groups)
  BY DEF IsLayout
<1>2. ASSUME NEW i \in 1..Len(l.groups)
      PROVE  l.groups[i] \in Seq(P) /\ DOMAIN l.groups[i] = 1..Len(l.groups[i])
             /\ ToSet(l.groups[i]) = {l.groups[i][j] : j \in 1..Len(l.groups[i])}
  <2>1. l.groups[i] \in Seq(P)
    BY <1>1
  <2> QED
    BY <2>1 DEF ToSet
<1>3. ASSUME NEW p PROVE p \in PanesOf(l) <=> \E i \in 1..Len(l.groups) : \E j \in 1..Len(l.groups[i]) : l.groups[i][j] = p
  <2>1. p \in PanesOf(l) <=> \E i \in 1..Len(l.groups) : p \in ToSet(l.groups[i])
    BY <1>1, Zenon DEF PanesOf
  <2>2. ASSUME NEW i \in 1..Len(l.groups) PROVE p \in ToSet(l.groups[i]) <=> \E j \in 1..Len(l.groups[i]) : l.groups[i][j] = p
    BY <1>2, Zenon
  <2> QED
    BY <2>1, <2>2
<1>4. PanesOf(l) \subseteq P
  <2>1. ASSUME NEW p \in PanesOf(l) PROVE p \in P
    <3>1. PICK i \in 1..Len(l.groups) : \E j \in 1..Len(l.groups[i]) : l.groups[i][j] = p
      BY <1>3
    <3>2. PICK j \in 1..Len(l.groups[i]) : l.groups[i][j] = p
      BY <3>1
    <3>3. l.groups[i] \in Seq(P)
      BY <1>2
    <3> QED
      BY <3>2, <3>3
  <2> QED
    BY <2>1
<1>5. l # Closed => PanesOf(l) # {}
  <2>1. SUFFICES ASSUME l # Closed PROVE PanesOf(l) # {}
    OBVIOUS
  <2>2. Len(l.groups) >= 1 /\ 1 \in 1..Len(l.groups)
    BY <1>1, <2>1 DEF IsLayout
  <2>3. l.groups[1] # <<>> /\ l.groups[1] \in Seq(P)
    BY <1>2, <2>2 DEF IsLayout
  <2>4. 1 \in 1..Len(l.groups[1])
    BY <2>3
  <2> QED
    BY <1>3, <2>2, <2>4
<1>6. PanesOf(Closed) = {}
  <2>1. Closed.groups = [i \in DOMAIN <<>> |-> <<(<<>>)[i]>>]
    BY DEF Closed, Line
  <2>2. DOMAIN Closed.groups = {}
    BY <2>1
  <2> QED
    BY <2>2 DEF PanesOf
<1> QED
  BY <1>3, <1>4, <1>5, <1>6

\* The same of the groups by a name.
LEMMA InOneOf ==
  ASSUME NEW P, NEW l, IsLayout(l, P), NEW gs, l.groups = gs
  PROVE  \A p : p \in PanesOf(l) <=> \E i \in 1..Len(gs) : \E j \in 1..Len(gs[i]) : gs[i][j] = p
<1>1. ASSUME NEW p PROVE p \in PanesOf(l) <=> \E i \in 1..Len(gs) : \E j \in 1..Len(gs[i]) : gs[i][j] = p
  <2>1. p \in PanesOf(l) <=> \E i \in 1..Len(l.groups) : \E j \in 1..Len(l.groups[i]) : l.groups[i][j] = p
    BY InAGroup, Zenon
  <2> QED
    BY <2>1, Zenon
<1> QED
  BY <1>1

\* Where a pane is found, it is.
LEMMA FoundInGroup ==
  ASSUME NEW P, NEW l, IsLayout(l, P), NEW p \in PanesOf(l)
  PROVE  /\ GroupOfPane(l, p) \in 1..Len(l.groups) /\ l.groups[GroupOfPane(l, p)] \in Seq(P)
         /\ PlaceIn(l.groups[GroupOfPane(l, p)], p) \in 1..Len(l.groups[GroupOfPane(l, p)])
         /\ l.groups[GroupOfPane(l, p)][PlaceIn(l.groups[GroupOfPane(l, p)], p)] = p
<1>1. l.groups \in Seq(Seq(P)) /\ DOMAIN l.groups = 1..Len(l.groups)
  BY DEF IsLayout
<1>2. \E i \in DOMAIN l.groups : p \in ToSet(l.groups[i])
  BY DEF PanesOf
<1>3. PICK i : i = GroupOfPane(l, p)
  OBVIOUS
<1>4. i \in DOMAIN l.groups /\ p \in ToSet(l.groups[i])
  BY <1>2, <1>3, Zenon DEF GroupOfPane
<1>5. PICK g : g = l.groups[i]
  OBVIOUS
<1>6. g \in Seq(P) /\ DOMAIN g = 1..Len(g) /\ \E j \in DOMAIN g : g[j] = p
  <2>1. g \in Seq(P)
    BY <1>1, <1>4, <1>5
  <2>2. p \in ToSet(g)
    BY <1>4, <1>5
  <2> QED
    BY <2>1, <2>2 DEF ToSet
<1>7. PlaceIn(g, p) \in DOMAIN g /\ g[PlaceIn(g, p)] = p
  BY <1>6, Zenon DEF PlaceIn
<1> QED
  BY <1>1, <1>3, <1>4, <1>5, <1>6, <1>7

\* One group of several panes is a line across.
LEMMA UprightKeeps ==
  ASSUME NEW P, NEW l, IsLayout(l, P)
  PROVE  IsLayout(Upright(l), P) /\ PanesOf(Upright(l)) = PanesOf(l)
<1>1. CASE Len(l.groups) # 1
  BY <1>1 DEF Upright
<1>2. CASE Len(l.groups) = 1
  <2>1. PICK g : g = l.groups[1]
    OBVIOUS
  <2>2. g \in Seq(P) /\ g # <<>>
    BY <1>2, <2>1 DEF IsLayout
  <2>3. PICK axis : Upright(l) = Line(axis, g)
    BY <1>2, <2>1 DEF Upright
  <2>4. PICK m : m = Upright(l)
    OBVIOUS
  <2>5. m = [axis |-> axis, groups |-> [i \in 1..Len(g) |-> <<g[i]>>]] /\ Len(g) \in Nat
    BY <2>2, <2>3, <2>4 DEF Line
  <2>6. m.groups = [i \in 1..Len(g) |-> <<g[i]>>] /\ m.axis = axis
    BY <2>5
  <2>7. ASSUME NEW i \in 1..Len(g) PROVE <<g[i]>> \in Seq(P)
    <3>1. g[i] \in P
      BY <2>2
    <3> QED
      BY <3>1
  <2>8. m.groups \in Seq(Seq(P)) /\ Len(m.groups) = Len(g)
    <3>1. m.groups \in [1..Len(g) -> Seq(P)]
      BY <2>6, <2>7
    <3> QED
      BY <2>5, <3>1
  <2>9. \A i \in 1..Len(g) : m.groups[i] = <<g[i]>> /\ m.groups[i] # <<>>
    BY <2>6
  <2>10. m.groups # <<>>
    BY <2>2, <2>8
  <2>11. IsLayout(m, P)
    BY <2>5, <2>6, <2>8, <2>9, <2>10 DEF IsLayout
  <2>12. ASSUME NEW p PROVE p \in PanesOf(m) <=> p \in PanesOf(l)
    <3>1. p \in PanesOf(m) <=> \E i \in 1..Len(g) : \E j \in 1..Len(m.groups[i]) : m.groups[i][j] = p
      BY <2>8, <2>11, InAGroup
    <3>2. ASSUME NEW i \in 1..Len(g) PROVE (\E j \in 1..Len(m.groups[i]) : m.groups[i][j] = p) <=> g[i] = p
      <4>1. m.groups[i] = <<g[i]>>
        BY <2>9
      <4> QED
        BY <4>1
    <3>3. p \in PanesOf(l) <=> \E j \in 1..Len(g) : g[j] = p
      <4>1. p \in PanesOf(l) <=> \E i \in 1..Len(l.groups) : \E j \in 1..Len(l.groups[i]) : l.groups[i][j] = p
        BY InAGroup
      <4>2. 1..Len(l.groups) = {1}
        BY <1>2
      <4> QED
        BY <2>1, <4>1, <4>2
    <3> QED
      BY <3>1, <3>2, <3>3
  <2> QED
    BY <2>4, <2>11, <2>12
<1> QED
  BY <1>1, <1>2

\* A layout of other groups, along the same axis or another.
LEMMA LayoutOf ==
  ASSUME NEW P, NEW axis, NEW gs \in Seq(Seq(P)), gs # <<>>, \A i \in 1..Len(gs) : gs[i] # <<>>,
         NEW m, m = [axis |-> axis, groups |-> gs]
  PROVE  IsLayout(m, P) /\ m # Closed
<1>1. m.axis = axis /\ m.groups = gs
  OBVIOUS
<1>2. m # Closed
  <2>1. DOMAIN Closed.groups = {}
    BY DEF Closed, Line
  <2>2. DOMAIN gs # {}
    <3> DEFINE Q == Seq(P)
    <3>1. gs \in Seq(Q)
      OBVIOUS
    <3> HIDE DEF Q
    <3>2. 1 \in 1..Len(gs) /\ DOMAIN gs = 1..Len(gs)
      BY <3>1
    <3> QED
      BY <3>2, Zenon
  <2> QED
    BY <1>1, <2>1, <2>2
<1> QED
  BY <1>1, <1>2 DEF IsLayout

\* Taking a pane out leaves all others.
LEMMA WithoutKeeps ==
  ASSUME NEW P, NEW l, IsLayout(l, P), NEW p, PanesOf(l) # {p}
  PROVE  /\ IsLayout(Without(l, p), P) /\ PanesOf(l) \ {p} \subseteq PanesOf(Without(l, p))
         /\ PanesOf(Without(l, p)) \subseteq PanesOf(l)
<1>1. CASE p \notin PanesOf(l)
  BY <1>1 DEF Without
<1>2. CASE p \in PanesOf(l)
  <2>1. PICK gs, i, g, j : gs = l.groups /\ i = GroupOfPane(l, p) /\ g = gs[i] /\ j = PlaceIn(g, p)
    OBVIOUS
  <2>2. /\ gs \in Seq(Seq(P)) /\ i \in 1..Len(gs) /\ g \in Seq(P) /\ j \in 1..Len(g) /\ g[j] = p
        /\ \A k \in 1..Len(gs) : gs[k] # <<>>
    BY <1>2, <2>1, FoundInGroup DEF IsLayout
  <2>3. PICK rest : rest = RemoveAt(g, j)
    OBVIOUS
  <2>4. /\ rest \in Seq(P) /\ Len(rest) = Len(g) - 1 /\ Len(g) \in Nat /\ Len(gs) \in Nat
        /\ \A k \in 1..Len(g) - 1 : rest[k] = g[IF k < j THEN k ELSE k + 1]
    <3>1. Len(g) \in Nat /\ Len(gs) \in Nat
      BY <2>2
    <3> QED
      BY <2>2, <2>3, <3>1, Removed, Zenon
  <2>5. PICK hs : hs = IF rest = <<>> THEN RemoveAt(gs, i) ELSE [gs EXCEPT ![i] = rest]
    OBVIOUS
  <2>6. PICK m : m = [axis |-> l.axis, groups |-> hs]
    OBVIOUS
  <2>7. Without(l, p) = Upright(m)
    <3>1. [l EXCEPT !.groups = IF rest = <<>> THEN RemoveAt(@, i) ELSE [@ EXCEPT ![i] = rest]] = m
      <4>1. l = [axis |-> l.axis, groups |-> gs]
        BY <2>1 DEF IsLayout
      <4>2. [l EXCEPT !.groups = hs] = m
        BY <2>6, <4>1
      <4> QED
        BY <2>1, <2>5, <4>2, Zenon
    <3> QED
      BY <1>2, <2>1, <2>3, <3>1 DEF Without
  <2>8. \A q : q \in PanesOf(l) <=> \E k \in 1..Len(gs) : \E n \in 1..Len(gs[k]) : gs[k][n] = q
    BY <2>1, InOneOf
  <2>9. CASE rest # <<>>
    <3>1. hs = [gs EXCEPT ![i] = rest]
      BY <2>5, <2>9
    <3>2. hs \in Seq(Seq(P)) /\ Len(hs) = Len(gs) /\ hs[i] = rest /\ \A k \in 1..Len(gs) : k # i => hs[k] = gs[k]
      BY <2>2, <2>4, <3>1
    <3>3. hs # <<>> /\ \A k \in 1..Len(hs) : hs[k] # <<>>
      <4>1. hs # <<>>
        BY <2>2, <3>2
      <4>2. ASSUME NEW k \in 1..Len(hs) PROVE hs[k] # <<>>
        BY <2>2, <2>9, <3>2
      <4> QED
        BY <4>1, <4>2
    <3>4. IsLayout(m, P)
      BY <2>6, <3>2, <3>3, LayoutOf
    <3>5. \A q : q \in PanesOf(m) <=> \E k \in 1..Len(hs) : \E n \in 1..Len(hs[k]) : hs[k][n] = q
      <4>1. m.groups = hs
        BY <2>6
      <4> QED
        BY <3>4, <4>1, InOneOf
    <3>6. ASSUME NEW q \in PanesOf(l), q # p PROVE q \in PanesOf(m)
      <4>1. PICK k \in 1..Len(gs) : \E n \in 1..Len(gs[k]) : gs[k][n] = q
        BY <2>8
      <4>2. PICK n \in 1..Len(gs[k]) : gs[k][n] = q
        BY <4>1
      <4>3. CASE k # i
        BY <3>2, <3>5, <4>2, <4>3
      <4>4. CASE k = i
        <5>1. n \in 1..Len(g) /\ g[n] = q /\ n # j
          BY <2>1, <2>2, <3>6, <4>2, <4>4
        <5>2. PICK u \in 1..Len(rest) : n = IF u < j THEN u ELSE u + 1
          <6>0. j \in Nat /\ Len(g) \in Nat /\ j <= Len(g) /\ Len(rest) = Len(g) - 1
            BY <2>2, <2>4
          <6>1. CASE n < j
            <7>1. n \in 1..Len(rest)
              BY <5>1, <6>0, <6>1
            <7> QED
              BY <6>1, <7>1
          <6>2. CASE ~(n < j)
            <7>1. n - 1 \in 1..Len(rest) /\ ~(n - 1 < j) /\ (n - 1) + 1 = n
              BY <2>2, <2>4, <5>1, <6>2
            <7> QED
              BY <7>1
          <6> QED
            BY <6>1, <6>2
        <5>3. rest[u] = q
          BY <2>4, <5>1, <5>2
        <5> QED
          BY <2>2, <3>2, <3>5, <5>3
      <4> QED
        BY <4>3, <4>4
    <3>7. ASSUME NEW q \in PanesOf(m) PROVE q \in PanesOf(l)
      <4>1. PICK k \in 1..Len(gs) : \E n \in 1..Len(hs[k]) : hs[k][n] = q
        BY <3>2, <3>5
      <4>2. PICK n \in 1..Len(hs[k]) : hs[k][n] = q
        BY <4>1
      <4>3. CASE k # i
        BY <2>8, <3>2, <4>2, <4>3
      <4>4. CASE k = i
        <5>1. n \in 1..Len(g) - 1 /\ rest[n] = q
          BY <2>4, <3>2, <4>2, <4>4
        <5>2. (IF n < j THEN n ELSE n + 1) \in 1..Len(g) /\ g[IF n < j THEN n ELSE n + 1] = q
          BY <2>2, <2>4, <5>1
        <5> QED
          BY <2>1, <2>2, <2>8, <5>2
      <4> QED
        BY <4>3, <4>4
    <3> QED
      BY <2>7, <3>4, <3>6, <3>7, UprightKeeps
  <2>10. CASE rest = <<>>
    <3>1. hs = RemoveAt(gs, i)
      BY <2>5, <2>10
    <3>2. Len(g) = 1 /\ j = 1
      <4>1. Len(rest) = 0
        BY <2>10
      <4>2. Len(g) \in Nat /\ Len(rest) = Len(g) - 1 /\ j \in 1..Len(g)
        BY <2>2, <2>4
      <4>3. ASSUME NEW n \in Nat, 0 = n - 1, NEW k \in 1..n PROVE n = 1 /\ k = 1
        BY <4>3
      <4>4. 0 = Len(g) - 1
        BY <4>1, <4>2
      <4> QED
        BY <4>2, <4>3, <4>4
    <3>3. hs \in Seq(Seq(P)) /\ Len(hs) = Len(gs) - 1 /\ \A k \in 1..Len(gs) - 1 : hs[k] = gs[IF k < i THEN k ELSE k + 1]
      BY <2>2, <3>1, Removed
    <3>4. ASSUME NEW k \in 1..Len(hs) PROVE hs[k] # <<>>
      <4>1. (IF k < i THEN k ELSE k + 1) \in 1..Len(gs) /\ k \in 1..Len(gs) - 1
        BY <2>2, <2>4, <3>3
      <4>2. hs[k] = gs[IF k < i THEN k ELSE k + 1]
        BY <3>3, <4>1
      <4> QED
        BY <2>2, <4>1, <4>2
    <3>5. Len(gs) # 1
      <4>1. SUFFICES ASSUME Len(gs) = 1 PROVE FALSE
        OBVIOUS
      <4>2. \A q : q \in PanesOf(l) <=> q = p
        <5>1. 1..Len(gs) = {1} /\ i = 1 /\ 1..Len(g) = {1} /\ gs[1] = g /\ g[1] = p
          BY <2>1, <2>2, <3>2, <4>1
        <5>2. ASSUME NEW q PROVE q \in PanesOf(l) <=> q = p
          <6>1. q \in PanesOf(l) <=> \E k \in {1} : \E n \in 1..Len(gs[k]) : gs[k][n] = q
            BY <2>8, <5>1, Zenon
          <6>2. q \in PanesOf(l) <=> \E n \in {1} : g[n] = q
            BY <5>1, <6>1
          <6> QED
            BY <5>1, <6>2
        <5> QED
          BY <5>2
      <4>3. PanesOf(l) = {p}
        <5>1. ASSUME NEW q PROVE q \in PanesOf(l) <=> q \in {p}
          BY <4>2, Zenon
        <5> QED
          BY <5>1, Zenon
      <4> QED
        BY <4>3
    <3>6. hs # <<>>
      BY <2>2, <2>4, <3>3, <3>5
    <3>7. IsLayout(m, P)
      BY <2>6, <3>3, <3>4, <3>6, LayoutOf
    <3>8. \A q : q \in PanesOf(m) <=> \E k \in 1..Len(hs) : \E n \in 1..Len(hs[k]) : hs[k][n] = q
      <4>1. m.groups = hs
        BY <2>6
      <4> QED
        BY <3>7, <4>1, InOneOf
    <3>9. ASSUME NEW q \in PanesOf(l), q # p PROVE q \in PanesOf(m)
      <4>1. PICK k \in 1..Len(gs) : \E n \in 1..Len(gs[k]) : gs[k][n] = q
        BY <2>8
      <4>2. PICK n \in 1..Len(gs[k]) : gs[k][n] = q
        BY <4>1
      <4>3. k # i
        BY <2>1, <2>2, <3>2, <3>9, <4>2
      <4>4. PICK u \in 1..Len(hs) : k = IF u < i THEN u ELSE u + 1
        <5>0. i \in Nat /\ Len(gs) \in Nat /\ i <= Len(gs) /\ Len(hs) = Len(gs) - 1
          BY <2>2, <2>4, <3>3
        <5>1. CASE k < i
          <6>1. k \in 1..Len(hs)
            BY <5>0, <5>1
          <6> QED
            BY <5>1, <6>1
        <5>2. CASE ~(k < i)
          <6>1. k - 1 \in 1..Len(hs) /\ ~(k - 1 < i) /\ (k - 1) + 1 = k
            BY <2>2, <2>4, <3>3, <4>3, <5>2
          <6> QED
            BY <6>1
        <5> QED
          BY <5>1, <5>2
      <4>5. hs[u] = gs[k]
        BY <3>3, <4>4
      <4> QED
        BY <3>8, <4>2, <4>5
    <3>10. ASSUME NEW q \in PanesOf(m) PROVE q \in PanesOf(l)
      <4>1. PICK k \in 1..Len(hs) : \E n \in 1..Len(hs[k]) : hs[k][n] = q
        BY <3>8
      <4>2. (IF k < i THEN k ELSE k + 1) \in 1..Len(gs) /\ hs[k] = gs[IF k < i THEN k ELSE k + 1]
        <5>1. i \in Nat /\ 1 <= i /\ i <= Len(gs) /\ Len(gs) \in Nat /\ k \in 1..Len(gs) - 1
          BY <2>2, <2>4, <3>3
        <5>2. (IF k < i THEN k ELSE k + 1) \in 1..Len(gs)
          BY <5>1
        <5> QED
          BY <3>3, <5>1, <5>2
      <4> QED
        BY <2>8, <4>1, <4>2
    <3> QED
      BY <2>7, <3>7, <3>9, <3>10, UprightKeeps
  <2> QED
    BY <2>9, <2>10
<1> QED
  BY <1>1, <1>2

\* A split shows the new pane beside all others.
LEMMA SplitKeeps ==
  ASSUME NEW P, NEW l, IsLayout(l, P), NEW t \in PanesOf(l), NEW side, NEW p \in P
  PROVE  /\ IsLayout(SplitAt(l, t, side, p), P) /\ SplitAt(l, t, side, p) # Closed
         /\ PanesOf(l) \cup {p} \subseteq PanesOf(SplitAt(l, t, side, p))
<1>1. PICK gs, i, g : gs = l.groups /\ i = GroupOfPane(l, t) /\ g = gs[i]
  OBVIOUS
<1>2. /\ gs \in Seq(Seq(P)) /\ i \in 1..Len(gs) /\ g \in Seq(P) /\ Len(gs) \in Nat /\ Len(g) \in Nat
      /\ \A k \in 1..Len(gs) : gs[k] # <<>>
  <2>1. gs \in Seq(Seq(P)) /\ i \in 1..Len(gs) /\ g \in Seq(P) /\ \A k \in 1..Len(gs) : gs[k] # <<>>
    BY <1>1, FoundInGroup DEF IsLayout
  <2>2. Len(gs) \in Nat /\ Len(g) \in Nat
    BY <2>1
  <2> QED
    BY <2>1, <2>2
<1>3. \A q : q \in PanesOf(l) <=> \E k \in 1..Len(gs) : \E n \in 1..Len(gs[k]) : gs[k][n] = q
  BY <1>1, InOneOf
<1>4. PICK a, b : a = (IF Sign(side) < 0 THEN i ELSE i + 1) /\ b = (IF Sign(side) < 0 THEN 1 ELSE 2)
  OBVIOUS
<1>5. a \in Nat /\ 1 <= a /\ a <= Len(gs) + 1 /\ b \in Nat /\ 1 <= b /\ b <= Len(g) + 1
  <2>1. Len(g) >= 1
    BY <1>1, <1>2
  <2> QED
    BY <1>2, <1>4, <2>1
<1>6. PICK m : m = SplitAt(l, t, side, p)
  OBVIOUS
<1>7. CASE Axis(side) = l.axis \/ Len(l.groups) = 1
  <2>1. PICK hs : hs = InsertAt(gs, a, <<p>>)
    OBVIOUS
  <2>2. m = [axis |-> Axis(side), groups |-> hs]
    BY <1>1, <1>4, <1>6, <1>7, <2>1 DEF SplitAt
  <2>3. /\ hs \in Seq(Seq(P)) /\ Len(hs) = Len(gs) + 1
        /\ \A k \in 1..Len(gs) + 1 : hs[k] = IF k < a THEN gs[k] ELSE IF k = a THEN <<p>> ELSE gs[k - 1]
    <3>1. <<p>> \in Seq(P)
      OBVIOUS
    <3> DEFINE Q == Seq(P)
    <3>2. gs \in Seq(Q) /\ <<p>> \in Q
      BY <1>2, <3>1
    <3> HIDE DEF Q
    <3>3. /\ hs \in Seq(Q) /\ Len(hs) = Len(gs) + 1
          /\ \A k \in 1..Len(gs) + 1 : hs[k] = IF k < a THEN gs[k] ELSE IF k = a THEN <<p>> ELSE gs[k - 1]
      <4>1. PICK e : e = <<p>>
        OBVIOUS
      <4>2. gs \in Seq(Q) /\ e \in Q /\ a \in Nat /\ 1 <= a /\ a <= Len(gs) + 1 /\ hs = InsertAt(gs, a, e)
        BY <1>5, <2>1, <3>2, <4>1
      <4>3. /\ InsertAt(gs, a, e) \in Seq(Q) /\ Len(InsertAt(gs, a, e)) = Len(gs) + 1
            /\ \A k \in 1..Len(gs) + 1 :
                 InsertAt(gs, a, e)[k] = IF k < a THEN gs[k] ELSE IF k = a THEN e ELSE gs[k - 1]
        <5>1. \A o \in Nat : 1 <= o /\ o <= Len(gs) + 1 =>
                /\ InsertAt(gs, o, e) \in Seq(Q) /\ Len(InsertAt(gs, o, e)) = Len(gs) + 1
                /\ \A k \in 1..Len(gs) + 1 :
                     InsertAt(gs, o, e)[k] = IF k < o THEN gs[k] ELSE IF k = o THEN e ELSE gs[k - 1]
          BY <4>2, Inserted
        <5> QED
          BY <4>2, <5>1, Zenon
      <4> QED
        BY <4>1, <4>2, <4>3, Zenon
    <3> QED
      BY <3>3 DEF Q
  <2>4. ASSUME NEW k \in 1..Len(hs) PROVE hs[k] # <<>>
    <3>1. k \in 1..Len(gs) + 1 /\ (k < a => k \in 1..Len(gs)) /\ (~(k < a) /\ k # a => k - 1 \in 1..Len(gs))
      <4>1. Len(hs) = Len(gs) + 1 /\ Len(gs) \in Nat /\ a \in Nat /\ 1 <= a /\ a <= Len(gs) + 1
        BY <1>2, <1>5, <2>3
      <4> QED
        BY <4>1
    <3>2. hs[k] = IF k < a THEN gs[k] ELSE IF k = a THEN <<p>> ELSE gs[k - 1]
      BY <2>3, <3>1
    <3> QED
      BY <1>2, <3>1, <3>2
  <2>5. hs # <<>>
    BY <1>2, <2>3
  <2>6. IsLayout(m, P) /\ m # Closed /\ m.groups = hs
    BY <2>2, <2>3, <2>4, <2>5, LayoutOf
  <2>7. \A q : q \in PanesOf(m) <=> \E k \in 1..Len(hs) : \E n \in 1..Len(hs[k]) : hs[k][n] = q
    BY <2>6, InOneOf
  <2>8. p \in PanesOf(m)
    <3>1. a \in 1..Len(hs) /\ hs[a] = <<p>>
      BY <1>2, <1>5, <2>3
    <3>2. 1 \in 1..Len(hs[a]) /\ hs[a][1] = p
      BY <3>1
    <3> QED
      BY <2>7, <3>1, <3>2
  <2>9. ASSUME NEW q \in PanesOf(l) PROVE q \in PanesOf(m)
    <3>1. PICK k \in 1..Len(gs) : \E n \in 1..Len(gs[k]) : gs[k][n] = q
      BY <1>3
    <3>2. PICK u : u = IF k < a THEN k ELSE k + 1
      OBVIOUS
    <3>3. u \in 1..Len(hs) /\ u \in 1..Len(gs) + 1 /\ (k < a => u < a) /\ (~(k < a) => ~(u < a) /\ u # a /\ u - 1 = k) /\ (k < a => u = k)
      <4>1. Len(hs) = Len(gs) + 1 /\ Len(gs) \in Nat /\ a \in Nat /\ 1 <= a /\ a <= Len(gs) + 1
        BY <1>2, <1>5, <2>3
      <4> QED
        BY <3>2, <4>1
    <3>4. hs[u] = gs[k]
      BY <2>3, <3>3
    <3> QED
      BY <2>7, <3>1, <3>3, <3>4
  <2> QED
    BY <1>6, <2>6, <2>8, <2>9
<1>8. CASE ~(Axis(side) = l.axis \/ Len(l.groups) = 1)
  <2>1. PICK h : h = InsertAt(g, b, p)
    OBVIOUS
  <2>2. PICK hs : hs = [gs EXCEPT ![i] = h]
    OBVIOUS
  <2>3. m = [axis |-> l.axis, groups |-> hs]
    <3>1. m = [l EXCEPT !.groups[i] = h]
      <4>1. b = (IF Sign(side) < 0 THEN 1 ELSE 1 + 1)
        BY <1>4
      <4>2. m = [l EXCEPT !.groups[i] = InsertAt(@, IF Sign(side) < 0 THEN 1 ELSE 1 + 1, p)]
        BY <1>1, <1>6, <1>8, Zenon DEF SplitAt
      <4> QED
        BY <1>1, <2>1, <4>1, <4>2
    <3> QED
      BY <1>1, <2>2, <3>1 DEF IsLayout
  <2>4. /\ h \in Seq(P) /\ Len(h) = Len(g) + 1
        /\ \A k \in 1..Len(g) + 1 : h[k] = IF k < b THEN g[k] ELSE IF k = b THEN p ELSE g[k - 1]
    <3>1. /\ InsertAt(g, b, p) \in Seq(P) /\ Len(InsertAt(g, b, p)) = Len(g) + 1
          /\ \A k \in 1..Len(g) + 1 :
               InsertAt(g, b, p)[k] = IF k < b THEN g[k] ELSE IF k = b THEN p ELSE g[k - 1]
      BY <1>2, <1>5, Inserted
    <3> QED
      BY <2>1, <3>1, Zenon
  <2>5. hs \in Seq(Seq(P)) /\ Len(hs) = Len(gs) /\ hs[i] = h /\ \A k \in 1..Len(gs) : k # i => hs[k] = gs[k]
    BY <1>2, <2>2, <2>4
  <2>6. h # <<>> /\ b \in 1..Len(h) /\ h[b] = p
    BY <1>2, <1>5, <2>4
  <2>7. hs # <<>> /\ \A k \in 1..Len(hs) : hs[k] # <<>>
    <3>1. hs # <<>>
      BY <1>2, <2>5
    <3>2. ASSUME NEW k \in 1..Len(hs) PROVE hs[k] # <<>>
      BY <1>2, <2>5, <2>6
    <3> QED
      BY <3>1, <3>2
  <2>8. IsLayout(m, P) /\ m # Closed /\ m.groups = hs
    BY <2>3, <2>5, <2>7, LayoutOf
  <2>9. \A q : q \in PanesOf(m) <=> \E k \in 1..Len(hs) : \E n \in 1..Len(hs[k]) : hs[k][n] = q
    BY <2>8, InOneOf
  <2>10. p \in PanesOf(m)
    BY <1>2, <2>5, <2>6, <2>9
  <2>11. ASSUME NEW q \in PanesOf(l) PROVE q \in PanesOf(m)
    <3>1. PICK k \in 1..Len(gs) : \E n \in 1..Len(gs[k]) : gs[k][n] = q
      BY <1>3
    <3>2. PICK n \in 1..Len(gs[k]) : gs[k][n] = q
      BY <3>1
    <3>3. CASE k # i
      BY <2>5, <2>9, <3>2, <3>3
    <3>4. CASE k = i
      <4>1. n \in 1..Len(g) /\ g[n] = q
        BY <1>1, <3>2, <3>4
      <4>2. PICK u : u = IF n < b THEN n ELSE n + 1
        OBVIOUS
      <4>3. u \in 1..Len(h) /\ u \in 1..Len(g) + 1 /\ (n < b => u < b /\ u = n) /\ (~(n < b) => ~(u < b) /\ u # b /\ u - 1 = n)
        BY <1>2, <1>5, <2>4, <4>1, <4>2
      <4>4. h[u] = q
        BY <2>4, <4>1, <4>3
      <4> QED
        BY <1>2, <2>5, <2>9, <4>3, <4>4
    <3> QED
      BY <3>3, <3>4
  <2> QED
    BY <1>6, <2>8, <2>10, <2>11
<1> QED
  BY <1>7, <1>8

\* Two panes that change places are both still there, and so is every other.
LEMMA SwapKeeps ==
  ASSUME NEW P, NEW l, IsLayout(l, P), NEW p \in PanesOf(l), NEW q \in PanesOf(l)
  PROVE  IsLayout(Swapped(l, p, q), P) /\ PanesOf(l) \subseteq PanesOf(Swapped(l, p, q))
<1>1. PICK gs : gs = l.groups
  OBVIOUS
<1>2. gs \in Seq(Seq(P)) /\ Len(gs) \in Nat /\ DOMAIN gs = 1..Len(gs) /\ \A k \in 1..Len(gs) : gs[k] # <<>>
  <2>1. gs \in Seq(Seq(P)) /\ \A k \in 1..Len(gs) : gs[k] # <<>>
    BY <1>1 DEF IsLayout
  <2> QED
    BY <2>1
<1>3. \A x : x \in PanesOf(l) <=> \E k \in 1..Len(gs) : \E n \in 1..Len(gs[k]) : gs[k][n] = x
  BY <1>1, InOneOf
<1>4. p \in P /\ q \in P
  BY InAGroup
<1>5. PICK hs : hs = [i \in DOMAIN gs |-> [j \in DOMAIN gs[i] |-> IF gs[i][j] = p THEN q ELSE IF gs[i][j] = q THEN p ELSE gs[i][j]]]
  OBVIOUS
<1>6. PICK m : m = Swapped(l, p, q)
  OBVIOUS
<1>7. m = [axis |-> l.axis, groups |-> hs]
  BY <1>1, <1>5, <1>6 DEF Swapped, IsLayout
<1>8. ASSUME NEW k \in 1..Len(gs)
      PROVE  /\ hs[k] \in Seq(P) /\ Len(hs[k]) = Len(gs[k]) /\ hs[k] # <<>>
             /\ \A n \in 1..Len(gs[k]) : hs[k][n] = IF gs[k][n] = p THEN q ELSE IF gs[k][n] = q THEN p ELSE gs[k][n]
  <2>1. PICK g : g = gs[k]
    OBVIOUS
  <2>2. g \in Seq(P) /\ g # <<>> /\ DOMAIN g = 1..Len(g) /\ Len(g) \in Nat
    <3>1. g \in Seq(P) /\ g # <<>>
      BY <1>2, <2>1
    <3> QED
      BY <3>1
  <2>3. PICK h : h = [j \in DOMAIN g |-> IF g[j] = p THEN q ELSE IF g[j] = q THEN p ELSE g[j]]
    OBVIOUS
  <2>4. hs[k] = h
    BY <1>2, <1>5, <2>1, <2>3, Zenon
  <2>5. h \in [1..Len(g) -> P]
    <3>1. ASSUME NEW j \in 1..Len(g) PROVE g[j] \in P
      BY <2>2
    <3> QED
      BY <1>4, <2>2, <2>3, <3>1
  <2>6. h \in Seq(P) /\ Len(h) = Len(g)
    BY <2>2, <2>5
  <2>7. h # <<>>
    <3>1. Len(g) # 0
      BY <2>2
    <3>2. Len(h) # 0
      BY <2>6, <3>1
    <3> QED
      BY <3>2
  <2>8. \A n \in 1..Len(g) : h[n] = IF g[n] = p THEN q ELSE IF g[n] = q THEN p ELSE g[n]
    BY <2>2, <2>3, Zenon
  <2> QED
    BY <2>1, <2>4, <2>6, <2>7, <2>8, Zenon
<1>9. hs \in Seq(Seq(P)) /\ Len(hs) = Len(gs)
  <2>1. hs \in [1..Len(gs) -> Seq(P)]
    <3>1. DOMAIN hs = 1..Len(gs) /\ hs = [i \in DOMAIN gs |-> hs[i]]
      BY <1>2, <1>5, Zenon
    <3> QED
      BY <1>2, <1>8, <3>1, Zenon
  <2>2. ASSUME NEW Q, NEW n \in Nat, NEW f \in [1..n -> Q] PROVE f \in Seq(Q) /\ Len(f) = n
    OBVIOUS
  <2> QED
    BY <1>2, <2>1, <2>2, Zenon
<1>10. CASE gs = <<>>
  <2>1. PanesOf(l) = {}
    <3>1. l = Closed
      BY <1>1, <1>10 DEF IsLayout
    <3> QED
      BY <3>1, InAGroup
  <2> QED
    BY <2>1
<1>11. CASE gs # <<>>
  <2>1. hs # <<>> /\ \A k \in 1..Len(hs) : hs[k] # <<>>
    <3>1. Len(gs) # 0
      BY <1>2, <1>11
    <3>2. hs # <<>>
      BY <1>9, <3>1
    <3> QED
      BY <1>8, <1>9, <3>2
  <2>2. IsLayout(m, P) /\ m.groups = hs
    BY <1>7, <1>9, <2>1, LayoutOf
  <2>3. \A x : x \in PanesOf(m) <=> \E k \in 1..Len(hs) : \E n \in 1..Len(hs[k]) : hs[k][n] = x
    BY <2>2, InOneOf
  <2>4. ASSUME NEW x, NEW y, x \in PanesOf(l), y = IF x = p THEN q ELSE IF x = q THEN p ELSE x PROVE y \in PanesOf(m)
    <3>1. PICK k \in 1..Len(gs) : \E n \in 1..Len(gs[k]) : gs[k][n] = x
      BY <1>3, <2>4
    <3>2. PICK n \in 1..Len(gs[k]) : gs[k][n] = x
      BY <3>1
    <3>3. hs[k][n] = y
      BY <1>8, <2>4, <3>2
    <3> QED
      BY <1>8, <1>9, <2>3, <3>3
  <2>5. ASSUME NEW x \in PanesOf(l) PROVE x \in PanesOf(m)
    <3>1. PICK y : y = IF x = p THEN q ELSE IF x = q THEN p ELSE x
      OBVIOUS
    <3>2. y \in PanesOf(l) /\ x = IF y = p THEN q ELSE IF y = q THEN p ELSE y
      BY <3>1
    <3> QED
      BY <2>4, <3>2
  <2> QED
    BY <1>6, <2>2, <2>5
<1> QED
  BY <1>10, <1>11

\* Only panes of the layout are next to one of its panes.
LEMMA NeighboursAreShown ==
  ASSUME NEW P, NEW l, IsLayout(l, P), NEW p \in PanesOf(l), NEW d
  PROVE  NextTo(l, p, d) \subseteq PanesOf(l)
<1>1. PICK i, g, j : i = GroupOfPane(l, p) /\ g = l.groups[i] /\ j = PlaceIn(g, p)
  OBVIOUS
<1>2. l.groups \in Seq(Seq(P)) /\ i \in DOMAIN l.groups /\ g \in Seq(P)
  BY <1>1, FoundInGroup DEF IsLayout
<1>3. ASSUME NEW k \in DOMAIN l.groups PROVE ToSet(l.groups[k]) \subseteq PanesOf(l)
  BY <1>3 DEF PanesOf
<1>4. ASSUME NEW k \in DOMAIN g PROVE g[k] \in PanesOf(l)
  <2>1. g[k] \in ToSet(g)
    BY <1>2 DEF ToSet
  <2> QED
    BY <1>1, <1>2, <1>3, <2>1, Zenon
<1>5. \/ \E k \in DOMAIN l.groups : NextTo(l, p, d) = ToSet(l.groups[k])
      \/ \E k \in DOMAIN g : NextTo(l, p, d) = {g[k]}
      \/ NextTo(l, p, d) = {}
  BY <1>1, Zenon DEF NextTo
<1> QED
  BY <1>3, <1>4, <1>5


\* Every layout of splits is one, but for empty ones that are not the closed one.
LEMMA SplitsAreLayouts ==
  ASSUME NEW P, IsFiniteSet(P), NEW l \in Layouts(P), l.groups = <<>> => l = Closed
  PROVE  IsLayout(l, P)
<1> DEFINE orders == UNION {SetToSeqs(S) : S \in SUBSET P}
           threes == {s \in orders : Len(s) = 3}
<1>3. PICK a, gs :
        /\ l = Upright([axis |-> a, groups |-> gs])
        /\ \/ gs \in {Line("horizontal", s).groups : s \in orders}
           \/ gs \in {<<<<s[1]>>, <<s[2], s[3]>>>> : s \in threes}
           \/ gs \in {<<<<s[1], s[2]>>, <<s[3]>>>> : s \in threes}
  <2> DEFINE rows == {Line("horizontal", s).groups : s \in orders}
                \cup {<<<<s[1]>>, <<s[2], s[3]>>>> : s \in threes} \cup {<<<<s[1], s[2]>>, <<s[3]>>>> : s \in threes}
  <2>2. l \in UNION {{Upright([axis |-> a, groups |-> g]) : g \in rows} : a \in {"horizontal", "vertical"}}
    BY Zenon DEF Layouts
  <2> HIDE DEF rows
  <2>3. PICK a : l \in {Upright([axis |-> a, groups |-> g]) : g \in rows}
    BY <2>2, Zenon
  <2>4. PICK gs \in rows : l = Upright([axis |-> a, groups |-> gs])
    BY <2>3, Zenon
  <2> QED
    BY <2>4, Zenon DEF rows
<1> HIDE DEF orders, threes
<1>4. ASSUME NEW s \in orders PROVE s \in Seq(P)
  <2>1. PICK S \in SUBSET P : s \in SetToSeqs(S)
    BY Zenon DEF orders
  <2>2. Cardinality(S) \in Nat
    BY FS_Subset, FS_CardinalityType
  <2>3. s \in [1..Cardinality(S) -> S]
    BY <2>1 DEF SetToSeqs
  <2>4. s \in Seq(S)
    BY <2>2, <2>3
  <2> QED
    BY <2>4
<1>5. gs \in Seq(Seq(P)) /\ \A i \in 1..Len(gs) : gs[i] # <<>>
  <2>1. CASE gs \in {Line("horizontal", s).groups : s \in orders}
    <3>1. PICK s \in orders : gs = Line("horizontal", s).groups
      BY <2>1, Zenon
    <3>2. DOMAIN s = 1..Len(s) /\ Len(s) \in Nat /\ \A i \in 1..Len(s) : s[i] \in P
      <4>1. s \in Seq(P)
        BY <1>4
      <4> QED
        BY <4>1
    <3>3. gs = [i \in 1..Len(s) |-> <<s[i]>>]
      BY <3>1, <3>2 DEF Line
    <3>4. ASSUME NEW i \in 1..Len(s) PROVE gs[i] # <<>> /\ gs[i] \in Seq(P)
      <4>1. s[i] \in P /\ gs[i] = <<s[i]>>
        BY <3>2, <3>3
      <4> QED
        BY <4>1
    <3>5. gs \in [1..Len(s) -> Seq(P)]
      BY <3>3, <3>4
    <3>6. ASSUME NEW Q, NEW n \in Nat, NEW f \in [1..n -> Q] PROVE f \in Seq(Q) /\ Len(f) = n
      OBVIOUS
    <3>7. gs \in Seq(Seq(P)) /\ Len(gs) = Len(s)
      BY <3>2, <3>5, <3>6, Zenon
    <3> QED
      BY <3>4, <3>7
  <2>2. ASSUME NEW g \in Seq(P), NEW h \in Seq(P), g # <<>>, h # <<>>, gs = <<g, h>>
        PROVE  gs \in Seq(Seq(P)) /\ \A i \in 1..Len(gs) : gs[i] # <<>>
    <3>1. \A i \in 1..Len(gs) : gs[i] # <<>>
      BY <2>2
    <3>2. ASSUME NEW Q, NEW u \in Q, NEW v \in Q PROVE <<u, v>> \in Seq(Q)
      OBVIOUS
    <3> QED
      BY <2>2, <3>1, <3>2, Zenon
  <2>3. ASSUME NEW s \in threes PROVE s[1] \in P /\ s[2] \in P /\ s[3] \in P
    <3>1. s \in orders /\ Len(s) = 3
      BY DEF threes
    <3>2. s \in Seq(P)
      BY <1>4, <3>1
    <3> QED
      BY <3>1, <3>2
  <2>4. ASSUME NEW x \in P, NEW y \in P, NEW z \in P
        PROVE  /\ <<x>> \in Seq(P) /\ <<x>> # <<>> /\ <<y, z>> \in Seq(P) /\ <<y, z>> # <<>>
               /\ <<x, y>> \in Seq(P) /\ <<x, y>> # <<>> /\ <<z>> \in Seq(P) /\ <<z>> # <<>>
    OBVIOUS
  <2>5. CASE gs \in {<<<<s[1]>>, <<s[2], s[3]>>>> : s \in threes}
    <3>1. PICK s \in threes : gs = <<<<s[1]>>, <<s[2], s[3]>>>>
      BY <2>5, Zenon
    <3> QED
      BY <2>2, <2>3, <2>4, <3>1, Zenon
  <2>6. CASE gs \in {<<<<s[1], s[2]>>, <<s[3]>>>> : s \in threes}
    <3>1. PICK s \in threes : gs = <<<<s[1], s[2]>>, <<s[3]>>>>
      BY <2>6, Zenon
    <3> QED
      BY <2>2, <2>3, <2>4, <3>1, Zenon
  <2> QED
    BY <1>3, <2>1, <2>5, <2>6
<1>6. PICK m : m = [axis |-> a, groups |-> gs]
  OBVIOUS
<1>7. CASE gs = <<>>
  <2>1. Len(gs) = 0
    BY <1>7
  <2>2. l = m
    BY <1>3, <1>6, <2>1 DEF Upright
  <2> QED
    BY <1>5, <1>6, <1>7, <2>2 DEF IsLayout
<1>8. CASE gs # <<>>
  <2>1. IsLayout(m, P)
    BY <1>5, <1>6, <1>8, LayoutOf
  <2> QED
    BY <1>3, <1>6, <2>1, UprightKeeps
<1> QED
  BY <1>7, <1>8

-----------------------------------------------------------------------------
(***************************************************************************)
(* Frames: what a call that nobody disturbs may rely on.                   *)
(***************************************************************************)

EPcs == {"idle", "side", "act", "count", "across", "prepare", "show", "check", "ahead", "into"}

(* What a frame shows, and where the focus is. *)
FrameInv ==
  /\ frames = [f \in Frame |-> frames[f]] /\ selected = [f \in Frame |-> selected[f]]
  /\ \A f \in Frame : IsLayout(frames[f], Buffer)
  /\ \A f \in LiveFrames : selected[f] \in PanesOf(frames[f])
  /\ focused \in LiveFrames \cup {0} /\ known \in LiveFrames \cup {0}

(* A call that the user has left alone, and what it may rely on. *)
EditInv ==
  /\ edit = [pc |-> edit.pc, op |-> edit.op, dir |-> edit.dir, what |-> edit.what]
  /\ watch = [shown |-> watch.shown, touched |-> watch.touched, moved |-> watch.moved]
  /\ edit.pc \in EPcs
  /\ edit.pc = "ahead" /\ ~watch.moved => known = tag /\ tag # 0
  /\ edit.pc # "idle" /\ ~watch.touched => watch.shown \subseteq ShownBuffers
  /\ edit.pc \in {"count", "prepare"} /\ ~watch.touched => known = focused
  /\ edit.pc = "prepare" /\ ~watch.touched /\ known # 0 =>
       PanesOf(frames[known]) \subseteq {selected[known]}
  /\ edit.pc \in {"show", "check", "ahead", "into"} /\ ~watch.touched =>
       tag \in LiveFrames /\ PanesOf(frames[tag]) \subseteq {selected[tag]}

EInv == FrameInv /\ EditInv

LaidOut(f) == f = [x \in Frame |-> f[x]] /\ \A x \in Frame : IsLayout(f[x], Buffer)
LiveIn(f) == {x \in Frame : f[x] # Closed}
ShownIn(f) == UNION {PanesOf(f[x]) : x \in Frame}

\* What Emacs does with new layouts of its frames.
LEMMA Redisplayed ==
  ASSUME FrameInv, NEW f, LaidOut(f), NEW sel, NEW foc, Redisplay(f, sel, foc)
  PROVE  /\ FrameInv' /\ frames' = f /\ LiveFrames' = LiveIn(f) /\ ShownBuffers' = ShownIn(f)
         /\ \A x \in LiveIn(f) : sel[x] \in PanesOf(f[x]) => selected'[x] = sel[x]
         /\ known \in LiveIn(f) \cup {0} => known' = known
         /\ foc \in LiveIn(f) \cup {0} => focused' = foc
<1>1. PICK live : live = LiveIn(f)
  OBVIOUS
<1>2. /\ frames' = f
      /\ selected' = [x \in Frame |-> IF x \notin live THEN 0
                                      ELSE IF sel[x] \in PanesOf(f[x]) THEN sel[x]
                                      ELSE CHOOSE b \in PanesOf(f[x]) : TRUE]
      /\ focused' \in IF foc \in live \cup {0} THEN {foc} ELSE live \cup {0}
      /\ known' = IF known \in live \cup {0} THEN known ELSE focused'
  BY <1>1 DEF Redisplay, LiveIn
<1>3. LiveFrames' = live /\ ShownBuffers' = ShownIn(f)
  BY <1>1, <1>2 DEF LiveFrames, ShownBuffers, LiveIn, ShownIn
<1>4. ASSUME NEW x \in live PROVE selected'[x] \in PanesOf(f[x]) /\ (sel[x] \in PanesOf(f[x]) => selected'[x] = sel[x])
  <2>1. x \in Frame /\ f[x] # Closed /\ IsLayout(f[x], Buffer)
    BY <1>1 DEF LiveIn, LaidOut
  <2>2. \E b : b \in PanesOf(f[x])
    <3>1. PICK l : l = f[x]
      OBVIOUS
    <3>2. PanesOf(l) # {}
      BY <2>1, <3>1, InAGroup
    <3> QED
      BY <3>1, <3>2
  <2>3. selected'[x] = IF sel[x] \in PanesOf(f[x]) THEN sel[x] ELSE CHOOSE b \in PanesOf(f[x]) : TRUE
    BY <1>2, <2>1, Zenon
  <2> QED
    BY <2>2, <2>3, Zenon
<1>5. focused' \in live \cup {0} /\ known' \in live \cup {0}
  BY <1>2
<1>6. frames' = [x \in Frame |-> frames'[x]] /\ \A x \in Frame : IsLayout(frames'[x], Buffer)
  BY <1>2 DEF LaidOut
<1>7. selected' = [x \in Frame |-> selected'[x]]
  BY <1>2
<1>8. FrameInv'
  <2>1. \A x \in LiveFrames' : selected'[x] \in PanesOf(frames'[x])
    BY <1>2, <1>3, <1>4
  <2> QED
    BY <1>3, <1>5, <1>6, <1>7, <2>1 DEF FrameInv
<1> QED
  BY <1>1, <1>2, <1>3, <1>4, <1>8


\* Emacs as it is.
LEMMA AsItIs ==
  ASSUME FrameInv
  PROVE  /\ LaidOut(frames) /\ LiveIn(frames) = LiveFrames /\ ShownIn(frames) = ShownBuffers
         /\ \A x \in LiveFrames : x \in Frame /\ IsLayout(frames[x], Buffer) /\ selected[x] \in PanesOf(frames[x]) /\ selected[x] \in Buffer
<1>1. LaidOut(frames) /\ LiveIn(frames) = LiveFrames /\ ShownIn(frames) = ShownBuffers
  BY DEF FrameInv, LaidOut, LiveIn, LiveFrames, ShownIn, ShownBuffers
<1>2. ASSUME NEW x \in LiveFrames
      PROVE  x \in Frame /\ IsLayout(frames[x], Buffer) /\ selected[x] \in PanesOf(frames[x]) /\ selected[x] \in Buffer
  <2>1. x \in Frame /\ IsLayout(frames[x], Buffer) /\ selected[x] \in PanesOf(frames[x])
    BY DEF FrameInv, LiveFrames
  <2>2. PICK l : l = frames[x]
    OBVIOUS
  <2>3. PanesOf(l) \subseteq Buffer
    BY <2>1, <2>2, InAGroup
  <2> QED
    BY <2>1, <2>2, <2>3
<1> QED
  BY <1>1, <1>2

\* Another layout for one frame.
Put(f, x, l) == [f EXCEPT ![x] = l]

\* Only that frame changes, and a layout put into it is a layout.
LEMMA OneLaidOut ==
  ASSUME NEW f, LaidOut(f), NEW x \in Frame, NEW l, IsLayout(l, Buffer), NEW g, g = Put(f, x, l)
  PROVE  LaidOut(g) /\ g[x] = l /\ \A y \in Frame : y # x => g[y] = f[y]
<1>1. g[x] = l /\ (\A y \in Frame : y # x => g[y] = f[y]) /\ g = [y \in Frame |-> g[y]]
  BY DEF LaidOut, Put
<1>2. ASSUME NEW y \in Frame PROVE IsLayout(g[y], Buffer)
  <2>1. CASE y = x
    BY <1>1, <2>1, Zenon
  <2>2. CASE y # x
    BY <1>1, <2>2, Zenon DEF LaidOut
  <2> QED
    BY <2>1, <2>2
<1> QED
  BY <1>1, <1>2 DEF LaidOut

\* Buffers that go to another frame, or stay, are all shown still.
LEMMA AllShown ==
  ASSUME NEW f, NEW g, \A y \in Frame : \A p \in PanesOf(f[y]) : \E z \in Frame : p \in PanesOf(g[z])
  PROVE  ShownIn(f) \subseteq ShownIn(g)
BY Zenon DEF ShownIn

\* A frame for one buffer.
LEMMA OwnFrame ==
  ASSUME NEW P, NEW b \in P
  PROVE  IsLayout(Line("horizontal", <<b>>), P) /\ b \in PanesOf(Line("horizontal", <<b>>))
<1>1. PICK m : m = Line("horizontal", <<b>>)
  OBVIOUS
<1>2. PICK gs : gs = <<<<b>>>>
  OBVIOUS
<1>3. m = [axis |-> "horizontal", groups |-> gs]
  <2>1. DOMAIN <<b>> = {1} /\ (<<b>>)[1] = b
    OBVIOUS
  <2>2. [i \in {1} |-> <<(<<b>>)[i]>>] = <<<<b>>>>
    OBVIOUS
  <2> QED
    BY <1>1, <1>2, <2>1, <2>2 DEF Line
<1>4. gs \in Seq(Seq(P)) /\ gs # <<>> /\ Len(gs) = 1 /\ gs[1] = <<b>>
  <2>1. <<b>> \in Seq(P)
    OBVIOUS
  <2>2. ASSUME NEW Q, NEW u \in Q PROVE <<u>> \in Seq(Q) /\ <<u>> # <<>> /\ Len(<<u>>) = 1 /\ (<<u>>)[1] = u
    OBVIOUS
  <2> QED
    BY <1>2, <2>1, <2>2, Zenon
<1>5. IsLayout(m, P) /\ m.groups = gs
  <2>1. \A i \in 1..Len(gs) : gs[i] # <<>>
    BY <1>4
  <2> QED
    BY <1>3, <1>4, <2>1, LayoutOf
<1>6. \A q : q \in PanesOf(m) <=> \E k \in 1..Len(gs) : \E n \in 1..Len(gs[k]) : gs[k][n] = q
  BY <1>5, InOneOf
<1>7. 1 \in 1..Len(gs) /\ 1 \in 1..Len(gs[1]) /\ gs[1][1] = b
  BY <1>4
<1> QED
  BY <1>1, <1>5, <1>6, <1>7

\* What a call does in the focused frame keeps every buffer on the screen.
LEMMA ActsKeep ==
  ASSUME EmacsAssumption, FrameInv, Acts
  PROVE  \E f, sel, foc : LaidOut(f) /\ Redisplay(f, sel, foc) /\ ShownBuffers \subseteq ShownIn(f)
<1>1. PICK k, l, b, near, rest :
        k = known /\ l = frames[k] /\ b = selected[k] /\ near = NextTo(l, b, edit.dir) /\ rest = Without(l, b)
  OBVIOUS
<1>2. k # 0 /\ k \in LiveFrames /\ k \in Frame /\ IsLayout(l, Buffer) /\ b \in PanesOf(l) /\ b \in Buffer
  <2>1. k # 0 /\ k \in LiveFrames
    BY <1>1 DEF Acts, HasFocus, FrameInv
  <2> QED
    BY <1>1, <2>1, AsItIs
<1>3. LaidOut(frames) /\ LiveIn(frames) = LiveFrames /\ ShownIn(frames) = ShownBuffers
  BY AsItIs
<1>4. near \subseteq PanesOf(l)
  BY <1>1, <1>2, NeighboursAreShown
<1>5. \/ \E n \in near : Redisplay(frames, [selected EXCEPT ![k] = n], k)
      \/ \E n \in near : Redisplay([frames EXCEPT ![k] = Swapped(l, b, n)], selected, k)
      \/ WindowCount > 1 /\ \E w \in PanesOf(rest) : Redisplay([frames EXCEPT ![k] = SplitAt(rest, w, edit.dir, b)], selected, k)
      \/ WindowCount > 1 /\ \E new \in Frame \ LiveFrames :
           Redisplay([[frames EXCEPT ![k] = rest] EXCEPT ![new] = Line("horizontal", <<b>>)],
                     [selected EXCEPT ![new] = b], new)
      \/ Redisplay(frames, selected, k)
  BY <1>1 DEF Acts, SelectedBuffer
<1>6. WindowCount > 1 => PanesOf(l) # {b}
  BY <1>1, FS_Singleton DEF WindowCount
<1>7. WindowCount > 1 => IsLayout(rest, Buffer) /\ PanesOf(l) \ {b} \subseteq PanesOf(rest)
  BY <1>1, <1>2, <1>6, WithoutKeeps
<1>8. ASSUME NEW m, IsLayout(m, Buffer), PanesOf(l) \subseteq PanesOf(m)
      PROVE  LaidOut([frames EXCEPT ![k] = m]) /\ ShownBuffers \subseteq ShownIn([frames EXCEPT ![k] = m])
  <2>1. PICK g : g = Put(frames, k, m)
    OBVIOUS
  <2>2. LaidOut(g) /\ g[k] = m /\ \A y \in Frame : y # k => g[y] = frames[y]
    BY <1>2, <1>3, <1>8, <2>1, OneLaidOut
  <2>3. \A y \in Frame : \A p \in PanesOf(frames[y]) : \E z \in Frame : p \in PanesOf(g[z])
    <3>1. ASSUME NEW y \in Frame, NEW p \in PanesOf(frames[y]) PROVE p \in PanesOf(g[y])
      <4>1. CASE y = k
        BY <1>1, <1>8, <2>2, <3>1, <4>1, Zenon
      <4>2. CASE y # k
        BY <2>2, <3>1, <4>2, Zenon
      <4> QED
        BY <4>1, <4>2
    <3> QED
      BY <3>1, Zenon
  <2> QED
    BY <1>3, <2>1, <2>2, <2>3, AllShown, Zenon DEF Put
<1>9. CASE Redisplay(frames, selected, k) \/ \E n \in near : Redisplay(frames, [selected EXCEPT ![k] = n], k)
  BY <1>3, <1>9, Zenon
<1>10. CASE \E n \in near : Redisplay([frames EXCEPT ![k] = Swapped(l, b, n)], selected, k)
  <2>1. PICK n \in near : Redisplay([frames EXCEPT ![k] = Swapped(l, b, n)], selected, k)
    BY <1>10
  <2>2. IsLayout(Swapped(l, b, n), Buffer) /\ PanesOf(l) \subseteq PanesOf(Swapped(l, b, n))
    BY <1>2, <1>4, SwapKeeps
  <2> QED
    BY <1>8, <2>1, <2>2, Zenon
<1>11. CASE WindowCount > 1 /\ \E w \in PanesOf(rest) : Redisplay([frames EXCEPT ![k] = SplitAt(rest, w, edit.dir, b)], selected, k)
  <2>1. PICK w \in PanesOf(rest) : Redisplay([frames EXCEPT ![k] = SplitAt(rest, w, edit.dir, b)], selected, k)
    BY <1>11
  <2>2. PICK m : m = SplitAt(rest, w, edit.dir, b)
    OBVIOUS
  <2>3. IsLayout(m, Buffer) /\ PanesOf(rest) \cup {b} \subseteq PanesOf(m)
    BY <1>2, <1>7, <1>11, <2>2, SplitKeeps
  <2>4. PanesOf(l) \subseteq PanesOf(m)
    BY <1>7, <1>11, <2>3
  <2> QED
    BY <1>8, <2>1, <2>2, <2>3, <2>4, Zenon
<1>12. CASE WindowCount > 1 /\ \E new \in Frame \ LiveFrames :
           Redisplay([[frames EXCEPT ![k] = rest] EXCEPT ![new] = Line("horizontal", <<b>>)],
                     [selected EXCEPT ![new] = b], new)
  <2>1. PICK new \in Frame \ LiveFrames :
           Redisplay([[frames EXCEPT ![k] = rest] EXCEPT ![new] = Line("horizontal", <<b>>)],
                     [selected EXCEPT ![new] = b], new)
    BY <1>12
  <2>2. new # k /\ new \in Frame /\ frames[new] = Closed
    BY <1>2, <2>1 DEF LiveFrames
  <2>3. PICK own : own = Line("horizontal", <<b>>)
    OBVIOUS
  <2>4. IsLayout(own, Buffer) /\ b \in PanesOf(own)
    BY <1>2, <2>3, OwnFrame
  <2>5. PICK g : g = Put(frames, k, rest)
    OBVIOUS
  <2>6. LaidOut(g) /\ g[k] = rest /\ \A y \in Frame : y # k => g[y] = frames[y]
    <3>1. IsLayout(rest, Buffer) /\ k \in Frame /\ LaidOut(frames)
      BY <1>2, <1>3, <1>7, <1>12
    <3> QED
      BY <2>5, <3>1, OneLaidOut
  <2>7. PICK h : h = Put(g, new, own)
    OBVIOUS
  <2>8. LaidOut(h) /\ h[new] = own /\ \A y \in Frame : y # new => h[y] = g[y]
    BY <2>2, <2>4, <2>6, <2>7, OneLaidOut
  <2>9. \A y \in Frame : \A p \in PanesOf(frames[y]) : \E z \in Frame : p \in PanesOf(h[z])
    <3>1. ASSUME NEW y \in Frame, NEW p \in PanesOf(frames[y]) PROVE \E z \in Frame : p \in PanesOf(h[z])
      <4>1. CASE y = new
        <5>1. p \in PanesOf(Closed)
          BY <2>2, <3>1, <4>1
        <5>2. PanesOf(Closed) = {}
          BY <2>4, InAGroup
        <5> QED
          BY <5>1, <5>2
      <4>2. CASE y = k /\ p = b
        BY <2>2, <2>4, <2>8, <4>2, Zenon
      <4>3. CASE y = k /\ p # b
        <5>1. p \in PanesOf(rest)
          BY <1>1, <1>7, <1>12, <3>1, <4>3
        <5>2. h[k] = rest
          BY <1>2, <2>2, <2>6, <2>8, Zenon
        <5> QED
          BY <1>2, <5>1, <5>2, Zenon
      <4>4. CASE y # k /\ y # new
        <5>1. h[y] = frames[y]
          BY <2>6, <2>8, <4>4, Zenon
        <5> QED
          BY <3>1, <5>1, Zenon
      <4> QED
        BY <4>1, <4>2, <4>3, <4>4, Zenon
    <3> QED
      BY <3>1, Zenon
  <2>10. ShownBuffers \subseteq ShownIn(h)
    BY <1>3, <2>9, AllShown, Zenon
  <2> QED
    BY <2>1, <2>3, <2>5, <2>7, <2>8, <2>10, Zenon DEF Put
<1> QED
  BY <1>5, <1>9, <1>10, <1>11, <1>12, Zenon


\* A frame that is gone shows nothing.
LEMMA NothingShown ==
  ASSUME NEW P
  PROVE  IsLayout(Closed, P) /\ PanesOf(Closed) = {}
<1>1. PICK gs : gs = [i \in DOMAIN <<>> |-> <<(<<>>)[i]>>]
  OBVIOUS
<1>2. Closed = [axis |-> "horizontal", groups |-> gs]
  BY <1>1 DEF Closed, Line
<1>3. gs \in Seq(Seq(P)) /\ Len(gs) = 0
  <2>1. ASSUME NEW Q PROVE gs \in [1..0 -> Q]
    BY <1>1
  <2>2. ASSUME NEW Q, NEW n \in Nat, NEW f \in [1..n -> Q] PROVE f \in Seq(Q) /\ Len(f) = n
    OBVIOUS
  <2>3. gs \in [1..0 -> Seq(P)]
    BY <2>1
  <2> QED
    BY <2>2, <2>3
<1>4. IsLayout(Closed, P)
  BY <1>2, <1>3 DEF IsLayout
<1> QED
  BY <1>4, InAGroup

\* A merge takes one frame away; nothing is lost if all that it showed is its
\* selected window's buffer.
LEMMA TakesKeep ==
  ASSUME EmacsAssumption, FrameInv, NEW from \in LiveFrames, NEW to \in LiveFrames, from # to, TakesBuffer(from, to)
  PROVE  \E f, sel :
           /\ LaidOut(f) /\ Redisplay(f, sel, focused) /\ f[from] = Closed
           /\ PanesOf(frames[from]) \subseteq {selected[from]} => ShownBuffers \subseteq ShownIn(f)
<1>1. PICK b, l : b = selected[from] /\ l = frames[to]
  OBVIOUS
<1>2. /\ from \in Frame /\ to \in Frame /\ b \in Buffer /\ IsLayout(l, Buffer)
      /\ LaidOut(frames) /\ ShownIn(frames) = ShownBuffers
  BY <1>1, AsItIs
<1>3. PICK w \in PanesOf(l) :
        Redisplay([frames EXCEPT ![to] = SplitAt(@, w, Opposite(edit.dir), b), ![from] = Closed],
                  [selected EXCEPT ![to] = b], focused)
  BY <1>1 DEF TakesBuffer
<1>4. PICK m : m = SplitAt(l, w, Opposite(edit.dir), b)
  OBVIOUS
<1>5. IsLayout(m, Buffer) /\ PanesOf(l) \cup {b} \subseteq PanesOf(m)
  BY <1>2, <1>4, SplitKeeps
<1>6. PICK g : g = Put(frames, to, m)
  OBVIOUS
<1>7. LaidOut(g) /\ g[to] = m /\ \A y \in Frame : y # to => g[y] = frames[y]
  <2>1. LaidOut(frames) /\ to \in Frame /\ IsLayout(m, Buffer)
    BY <1>2, <1>5
  <2> QED
    BY <1>6, <2>1, OneLaidOut
<1>8. PICK h : h = Put(g, from, Closed)
  OBVIOUS
<1>9. LaidOut(h) /\ h[from] = Closed /\ \A y \in Frame : y # from => h[y] = g[y]
  <2>1. LaidOut(g) /\ from \in Frame /\ IsLayout(Closed, Buffer)
    BY <1>2, <1>7, NothingShown
  <2> QED
    BY <1>8, <2>1, OneLaidOut
<1>10. Redisplay(h, [selected EXCEPT ![to] = b], focused)
  <2>1. h = [frames EXCEPT ![to] = SplitAt(@, w, Opposite(edit.dir), b), ![from] = Closed]
    BY <1>1, <1>4, <1>6, <1>8 DEF Put
  <2> QED
    BY <1>3, <2>1
<1>11. ASSUME PanesOf(frames[from]) \subseteq {b} PROVE ShownBuffers \subseteq ShownIn(h)
  <2>1. ASSUME NEW y \in Frame, NEW p \in PanesOf(frames[y]) PROVE \E z \in Frame : p \in PanesOf(h[z])
    <3>1. h[to] = m
      BY <1>2, <1>7, <1>9, Zenon
    <3>2. CASE y = from
      <4>1. p = b
        BY <1>11, <2>1, <3>2
      <4> QED
        BY <1>2, <1>5, <3>1, <4>1, Zenon
    <3>3. CASE y = to
      <4>1. p \in PanesOf(m)
        BY <1>1, <1>5, <2>1, <3>3
      <4> QED
        BY <1>2, <3>1, <4>1, Zenon
    <3>4. CASE y # from /\ y # to
      <4>1. h[y] = frames[y]
        BY <1>7, <1>9, <3>4, Zenon
      <4> QED
        BY <2>1, <4>1, Zenon
    <3> QED
      BY <3>2, <3>3, <3>4, Zenon
  <2> QED
    BY <1>2, <2>1, AllShown, Zenon
<1> QED
  BY <1>1, <1>9, <1>10, <1>11, Zenon

\* The user closes no frame.
LEMMA UserKeepsFrames ==
  ASSUME EmacsAssumption, FrameInv, UserOfEmacs
  PROVE  \E f, sel, foc : LaidOut(f) /\ Redisplay(f, sel, foc) /\ LiveFrames \subseteq LiveIn(f)
<1>1. LaidOut(frames) /\ LiveIn(frames) = LiveFrames
  BY AsItIs
<1>2. PICK k, l, b : k = focused /\ l = frames[k] /\ b = selected[k]
  OBVIOUS
<1>3. \/ \E f \in (LiveFrames \cup {0}) \ {k} : Redisplay(frames, selected, f)
      \/ \E n \in (IF k = 0 THEN {} ELSE PanesOf(l) \ {b}) : Redisplay(frames, [selected EXCEPT ![k] = n], k)
      \/ \E n \in Buffer \ ShownBuffers :
           k # 0 /\ \E d \in Sides : Redisplay([frames EXCEPT ![k] = SplitAt(@, b, d, n)], selected, k)
  BY <1>2 DEF UserOfEmacs
<1>4. CASE \E f \in (LiveFrames \cup {0}) \ {k} : Redisplay(frames, selected, f)
  BY <1>1, <1>4, Zenon
<1>5. CASE \E n \in (IF k = 0 THEN {} ELSE PanesOf(l) \ {b}) : Redisplay(frames, [selected EXCEPT ![k] = n], k)
  BY <1>1, <1>5, Zenon
<1>6. CASE \E n \in Buffer \ ShownBuffers :
             k # 0 /\ \E d \in Sides : Redisplay([frames EXCEPT ![k] = SplitAt(@, b, d, n)], selected, k)
  <2>1. PICK n \in Buffer, d \in Sides :
          k # 0 /\ Redisplay([frames EXCEPT ![k] = SplitAt(@, b, d, n)], selected, k)
    BY <1>6
  <2>2. k \in LiveFrames
    BY <1>2, <2>1 DEF FrameInv
  <2>3. k \in Frame /\ IsLayout(l, Buffer) /\ b \in PanesOf(l)
    BY <1>2, <2>2, AsItIs
  <2>4. PICK m : m = SplitAt(l, b, d, n)
    OBVIOUS
  <2>5. IsLayout(m, Buffer) /\ m # Closed
    BY <2>3, <2>4, SplitKeeps
  <2>6. PICK g : g = Put(frames, k, m)
    OBVIOUS
  <2>7. LaidOut(g) /\ g[k] = m /\ \A y \in Frame : y # k => g[y] = frames[y]
    BY <1>1, <2>3, <2>5, <2>6, OneLaidOut
  <2>8. Redisplay(g, selected, k)
    <3>1. g = [frames EXCEPT ![k] = SplitAt(@, b, d, n)]
      BY <1>2, <2>4, <2>6 DEF Put
    <3> QED
      BY <2>1, <3>1
  <2>9. LiveFrames \subseteq LiveIn(g)
    BY <2>5, <2>7 DEF LiveFrames, LiveIn
  <2> QED
    BY <2>7, <2>8, <2>9, Zenon
<1> QED
  BY <1>3, <1>4, <1>5, <1>6, Zenon


\* Emacs shows its frames again as they are.
LEMMA ShownAgain ==
  ASSUME FrameInv, NEW foc, Redisplay(frames, selected, foc)
  PROVE  /\ FrameInv' /\ frames' = frames /\ LiveFrames' = LiveFrames /\ ShownBuffers' = ShownBuffers
         /\ (\A x \in LiveFrames : selected'[x] = selected[x]) /\ known' = known
         /\ foc \in LiveFrames \cup {0} => focused' = foc
<1>1. /\ LaidOut(frames) /\ LiveIn(frames) = LiveFrames /\ ShownIn(frames) = ShownBuffers
      /\ \A x \in LiveFrames : selected[x] \in PanesOf(frames[x])
      /\ known \in LiveFrames \cup {0}
  BY AsItIs DEF FrameInv
<1>2. PICK f, sel : f = frames /\ sel = selected
  OBVIOUS
<1>3. LaidOut(f) /\ Redisplay(f, sel, foc)
  BY <1>1, <1>2
<1> QED
  BY <1>1, <1>2, <1>3, Redisplayed

\* Every step keeps what a call relies on.
LEMMA EmacsStep ==
  ASSUME EmacsAssumption, EInv, [EmacsNext]_emacsVars
  PROVE  EInv'
<1>1. FrameInv /\ EditInv
  BY DEF EInv
<1>2. UNCHANGED <<frames, selected, focused, known>> =>
        FrameInv' /\ ShownBuffers' = ShownBuffers /\ LiveFrames' = LiveFrames
  BY <1>1 DEF FrameInv, LiveFrames, ShownBuffers
<1>3. CASE BeginEdit
  <2>1. PICK op \in {"focus", "resize", "move"}, d \in EmacsAsked :
          edit' = [pc |-> CASE op = "focus" -> "side" [] op = "resize" -> "act" [] OTHER -> "count",
                   op |-> op, dir |-> d, what |-> op]
    BY <1>3 DEF BeginEdit
  <2>2. PICK pc \in {"side", "act", "count"} : edit' = [pc |-> pc, op |-> op, dir |-> d, what |-> op]
    <3>1. CASE op = "focus"
      BY <2>1, <3>1
    <3>2. CASE op = "resize"
      BY <2>1, <3>2
    <3>3. CASE op = "move"
      BY <2>1, <3>3
    <3> QED
      BY <3>1, <3>2, <3>3
  <2>3. /\ watch' = [shown |-> ShownBuffers, touched |-> known # focused, moved |-> FALSE]
        /\ UNCHANGED <<frames, selected, focused, known, tag>>
    BY <1>3 DEF BeginEdit, Same
  <2>4. EditInv'
    BY <1>2, <2>2, <2>3 DEF EditInv, EPcs
  <2> QED
    BY <1>2, <2>3, <2>4 DEF EInv
<1>4. CASE CountWindows
  <2>1. /\ edit.pc = "count" /\ known # 0 /\ edit' = [edit EXCEPT !.pc = IF LoneWindow THEN "prepare" ELSE "side"]
        /\ UNCHANGED <<frames, selected, focused, known, tag, watch>>
    BY <1>4 DEF CountWindows, HasFocus, Goes, Same
  <2>2. LoneWindow => PanesOf(frames[known]) \subseteq {selected[known]}
    <3>1. SUFFICES ASSUME LoneWindow PROVE PanesOf(frames[known]) \subseteq {selected[known]}
      OBVIOUS
    <3>2. PICK S, b : S = PanesOf(frames[known]) /\ b = selected[known]
      OBVIOUS
    <3>3. known \in LiveFrames
      BY <1>1, <2>1 DEF FrameInv
    <3>4. b \in S /\ IsLayout(frames[known], Buffer)
      BY <1>1, <3>2, <3>3, AsItIs
    <3>5. S \subseteq Buffer
      BY <3>2, <3>4, InAGroup
    <3>6. IsFiniteSet(S)
      BY <3>5, FS_Subset DEF EmacsAssumption
    <3>7. Cardinality(S) <= 1 /\ Cardinality(S) \in Nat
      BY <3>1, <3>2, <3>6, FS_CardinalityType DEF LoneWindow, WindowCount
    <3>8. IsFiniteSet(S \ {b}) /\ Cardinality(S \ {b}) = Cardinality(S) - 1
      BY <3>4, <3>6, FS_RemoveElement
    <3>9. Cardinality(S \ {b}) \in Nat
      BY <3>8, FS_CardinalityType
    <3>10. Cardinality(S \ {b}) = 0
      BY <3>7, <3>8, <3>9
    <3>11. S \ {b} = {}
      BY <3>8, <3>10, FS_EmptySet
    <3> QED
      BY <3>2, <3>11
  <2> QED
    BY <1>1, <1>2, <2>1, <2>2 DEF EInv, EditInv, EPcs
<1>5. CASE LookAtSide
  <2>1. /\ edit.pc = "side"
        /\ \/ edit' = [edit EXCEPT !.pc = "act", !.what = "swap"]
           \/ edit' = [edit EXCEPT !.pc = "act", !.what = "focus"]
           \/ edit' = [edit EXCEPT !.pc = "across"]
           \/ edit' = Resting
        /\ UNCHANGED <<frames, selected, focused, known, tag, watch>>
    <3>1. edit.pc = "side" /\ UNCHANGED <<frames, selected, focused, known, tag, watch>>
      BY <1>5 DEF LookAtSide, Same
    <3>2. CASE ~AtSide(edit.dir)
      BY <1>5, <3>1, <3>2 DEF LookAtSide
    <3>3. CASE AtSide(edit.dir)
      BY <1>5, <3>1, <3>3 DEF LookAtSide, Returns, Goes
    <3> QED
      BY <3>2, <3>3
  <2>2. CASE edit' = Resting
    BY <1>1, <1>2, <2>1, <2>2 DEF EInv, EditInv, EPcs, Resting
  <2>3. CASE edit' # Resting
    BY <1>1, <1>2, <2>1, <2>3 DEF EInv, EditInv, EPcs
  <2> QED
    BY <2>2, <2>3
<1>6. CASE LookAcross
  BY <1>1, <1>2, <1>6 DEF EInv, EditInv, EPcs, LookAcross, Same
<1>7. CASE CheckFocus
  BY <1>1, <1>2, <1>7 DEF EInv, EditInv, EPcs, CheckFocus, Goes, HasFocus, Same
<1>8. CASE EvalFails
  BY <1>1, <1>2, <1>8 DEF EInv, EditInv, EPcs, EvalFails, Returns, Resting, Same
<1>9. CASE UNCHANGED emacsVars
  BY <1>1, <1>2, <1>9 DEF EInv, EditInv, EPcs, emacsVars
<1>10. ASSUME edit' = Resting, UNCHANGED <<tag, watch>> PROVE EditInv'
  BY <1>1, <1>10 DEF EditInv, EPcs, Resting
<1>11. CASE Acts
  <2>1. FrameInv'
    <3>1. PICK f, sel, foc : LaidOut(f) /\ Redisplay(f, sel, foc)
      BY <1>1, <1>11, ActsKeep
    <3> QED
      BY <1>1, <3>1, Redisplayed
  <2> QED
    BY <1>10, <1>11, <2>1 DEF Acts, Returns, EInv
<1>12. CASE TagFrame
  <2>1. edit.pc = "prepare" /\ known # 0 /\ Redisplay(frames, selected, known) /\ tag' = known
        /\ edit' = [edit EXCEPT !.pc = "show"] /\ watch' = watch
    BY <1>12 DEF TagFrame, HasFocus, Goes
  <2>2. known \in LiveFrames
    BY <1>1, <2>1 DEF FrameInv
  <2>3. /\ FrameInv' /\ frames' = frames /\ LiveFrames' = LiveFrames /\ ShownBuffers' = ShownBuffers
        /\ selected'[known] = selected[known]
    BY <1>1, <2>1, <2>2, ShownAgain
  <2> QED
    BY <1>1, <2>1, <2>2, <2>3 DEF EInv, EditInv, EPcs
<1>13. CASE ShowTargetFrame
  <2>1. edit.pc = "show" /\ UNCHANGED <<tag, watch>>
    BY <1>13 DEF ShowTargetFrame
  <2>2. CASE \E f \in LiveFrames \ {focused} : Redisplay(frames, selected, f) /\ Goes("check")
    <3>1. PICK f : Redisplay(frames, selected, f) /\ edit' = [edit EXCEPT !.pc = "check"]
      BY <2>2 DEF Goes
    <3>2. /\ FrameInv' /\ frames' = frames /\ LiveFrames' = LiveFrames /\ ShownBuffers' = ShownBuffers
          /\ \A x \in LiveFrames : selected'[x] = selected[x]
      BY <1>1, <3>1, ShownAgain
    <3> QED
      BY <1>1, <2>1, <3>1, <3>2 DEF EInv, EditInv, EPcs
  <2>3. CASE UNCHANGED Same /\ Returns
    BY <1>2, <1>10, <2>1, <2>3 DEF Same, Returns, EInv
  <2> QED
    BY <1>13, <2>2, <2>3 DEF ShowTargetFrame
<1>14. ASSUME NEW from \in LiveFrames, NEW to \in LiveFrames, from # to, TakesBuffer(from, to) PROVE FrameInv'
  <2>1. PICK f, sel : LaidOut(f) /\ Redisplay(f, sel, focused)
    BY <1>1, <1>14, TakesKeep
  <2> QED
    BY <1>1, <2>1, Redisplayed
<1>15. CASE MergeAhead
  <2>1. FrameInv'
    <3>1. known \in LiveFrames
      BY <1>1, <1>15 DEF MergeAhead, HasFocus, FrameInv
    <3>2. CASE LiveFrames = {known}
      BY <1>1, <1>15, <3>2, ShownAgain DEF MergeAhead
    <3>3. CASE LiveFrames # {known}
      <4>1. PICK f \in LiveFrames \ {known} : TakesBuffer(known, f)
        BY <1>15, <3>3 DEF MergeAhead
      <4> QED
        BY <1>14, <3>1, <4>1
    <3> QED
      BY <3>2, <3>3
  <2> QED
    BY <1>10, <1>15, <2>1 DEF MergeAhead, Returns, EInv
<1>16. CASE MergeTagged
  <2>1. FrameInv'
    <3>1. known \in LiveFrames
      BY <1>1, <1>16 DEF MergeTagged, HasFocus, FrameInv
    <3>2. CASE TaggedFrame = 0
      BY <1>1, <1>16, <3>2, ShownAgain DEF MergeTagged
    <3>3. CASE TaggedFrame # 0
      <4>1. TaggedFrame \in LiveFrames \ {known} /\ TakesBuffer(TaggedFrame, known)
        BY <1>16, <3>3 DEF MergeTagged, TaggedFrame
      <4> QED
        BY <1>14, <3>1, <4>1
    <3> QED
      BY <3>2, <3>3
  <2> QED
    BY <1>10, <1>16, <2>1 DEF MergeTagged, Returns, EInv
<1>17. CASE UserOfEmacs
  <2>1. PICK f, sel, foc : LaidOut(f) /\ Redisplay(f, sel, foc) /\ LiveFrames \subseteq LiveIn(f)
    BY <1>1, <1>17, UserKeepsFrames
  <2>2. FrameInv' /\ (known \in LiveIn(f) \cup {0} => known' = known)
    BY <1>1, <2>1, Redisplayed
  <2>3. known' = known
    BY <1>1, <2>1, <2>2 DEF FrameInv
  <2>4. UNCHANGED <<tag, edit>> /\ watch' = [watch EXCEPT !.touched = TRUE]
    BY <1>17 DEF UserOfEmacs
  <2> QED
    BY <1>1, <2>2, <2>3, <2>4 DEF EInv, EditInv, EPcs
<1>18. CASE EmacsCatchesUp
  <2>1. /\ known # focused /\ known' = focused /\ UNCHANGED <<frames, selected, focused, tag, edit>>
        /\ watch' = [watch EXCEPT !.moved = @ \/ edit.pc \in {"ahead", "into"}]
    BY <1>18 DEF EmacsCatchesUp
  <2>2. FrameInv' /\ LiveFrames' = LiveFrames /\ ShownBuffers' = ShownBuffers
    BY <1>1, <2>1 DEF FrameInv, LiveFrames, ShownBuffers
  <2> QED
    BY <1>1, <2>1, <2>2 DEF EInv, EditInv, EPcs
<1> QED
  BY <1>3, <1>4, <1>5, <1>6, <1>7, <1>8, <1>9, <1>11, <1>12, <1>13, <1>15, <1>16, <1>17, <1>18, Zenon DEF EmacsNext


\* The first states.
LEMMA EmacsStart ==
  ASSUME EmacsAssumption, EmacsInit
  PROVE  EInv
<1>1. /\ frames \in [Frame -> Layouts(Buffer)] /\ \A f \in Frame : frames[f].groups = <<>> => frames[f] = Closed
      /\ selected \in [Frame -> Buffer \cup {0}]
      /\ \A f \in Frame : IF frames[f] = Closed THEN selected[f] = 0 ELSE selected[f] \in PanesOf(frames[f])
      /\ focused \in LiveFrames /\ known = focused
      /\ edit = Resting /\ watch = [shown |-> {}, touched |-> TRUE, moved |-> FALSE]
  BY DEF EmacsInit, EmacsLayouts
<1>2. ASSUME NEW f \in Frame PROVE IsLayout(frames[f], Buffer)
  <2>1. PICK l : l = frames[f]
    OBVIOUS
  <2>2. l \in Layouts(Buffer) /\ (l.groups = <<>> => l = Closed) /\ IsFiniteSet(Buffer)
    BY <1>1, <2>1 DEF EmacsAssumption
  <2>3. IsLayout(l, Buffer)
    BY <2>2, SplitsAreLayouts
  <2> QED
    BY <2>1, <2>3
<1>3. FrameInv
  <2>1. frames = [f \in Frame |-> frames[f]] /\ selected = [f \in Frame |-> selected[f]]
    BY <1>1
  <2>2. \A f \in LiveFrames : selected[f] \in PanesOf(frames[f])
    BY <1>1 DEF LiveFrames
  <2> QED
    BY <1>1, <1>2, <2>1, <2>2 DEF FrameInv
<1>4. EditInv
  BY <1>1 DEF EditInv, EPcs, Resting
<1> QED
  BY <1>3, <1>4 DEF EInv

\* No step of a call that is left alone takes a buffer off the screen.
LEMMA StepKeepsBuffers ==
  ASSUME EmacsAssumption, EInv, [EmacsNext]_emacsVars,
         edit.pc \in {"act", "ahead", "into"}, edit' # edit, frames' # frames, ~watch.moved
  PROVE  /\ watch.touched \/ watch.shown \subseteq ShownBuffers'
         /\ edit.pc = "act" \/ (tag # 0 /\ frames'[tag] = Closed)
<1>1. FrameInv /\ EditInv
  BY DEF EInv
<1>2. watch.touched \/ watch.shown \subseteq ShownBuffers
  BY <1>1 DEF EditInv
<1>3. CASE Acts
  <2>1. PICK f, sel, foc : LaidOut(f) /\ Redisplay(f, sel, foc) /\ ShownBuffers \subseteq ShownIn(f)
    BY <1>1, <1>3, ActsKeep
  <2>2. ShownBuffers' = ShownIn(f)
    BY <1>1, <2>1, Redisplayed
  <2>3. edit.pc = "act"
    BY <1>3 DEF Acts
  <2> QED
    BY <1>2, <2>1, <2>2, <2>3
<1>4. ASSUME NEW from \in LiveFrames, NEW to \in LiveFrames, from # to, TakesBuffer(from, to),
             from = tag, edit.pc \in {"ahead", "into"}
      PROVE  /\ watch.touched \/ watch.shown \subseteq ShownBuffers'
             /\ tag # 0 /\ frames'[tag] = Closed
  <2>1. PICK f, sel :
          /\ LaidOut(f) /\ Redisplay(f, sel, focused) /\ f[from] = Closed
          /\ PanesOf(frames[from]) \subseteq {selected[from]} => ShownBuffers \subseteq ShownIn(f)
    BY <1>1, <1>4, TakesKeep
  <2>2. frames' = f /\ ShownBuffers' = ShownIn(f)
    BY <1>1, <2>1, Redisplayed
  <2>3. ~watch.touched => PanesOf(frames[from]) \subseteq {selected[from]}
    BY <1>1, <1>4 DEF EditInv
  <2>4. tag # 0
    BY <1>4 DEF LiveFrames, EmacsAssumption
  <2> QED
    BY <1>2, <1>4, <2>1, <2>2, <2>3, <2>4
<1>5. CASE MergeAhead
  <2>1. known \in LiveFrames /\ known = tag /\ edit.pc = "ahead"
    BY <1>1, <1>5 DEF MergeAhead, HasFocus, FrameInv, EditInv
  <2>2. LiveFrames # {known}
    <3>1. SUFFICES ASSUME LiveFrames = {known} PROVE FALSE
      OBVIOUS
    <3>2. frames' = frames
      BY <1>1, <1>5, <3>1, ShownAgain DEF MergeAhead
    <3> QED
      BY <3>2
  <2>3. PICK f \in LiveFrames \ {known} : TakesBuffer(known, f)
    BY <1>5, <2>2 DEF MergeAhead
  <2> QED
    BY <1>4, <2>1, <2>3
<1>6. CASE MergeTagged
  <2>1. known \in LiveFrames /\ edit.pc = "into"
    BY <1>1, <1>6 DEF MergeTagged, HasFocus, FrameInv
  <2>2. TaggedFrame # 0
    <3>1. SUFFICES ASSUME TaggedFrame = 0 PROVE FALSE
      OBVIOUS
    <3>2. frames' = frames
      BY <1>1, <1>6, <3>1, ShownAgain DEF MergeTagged
    <3> QED
      BY <3>2
  <2>3. TaggedFrame = tag /\ tag \in LiveFrames \ {known} /\ TakesBuffer(tag, known)
    BY <1>6, <2>2 DEF MergeTagged, TaggedFrame
  <2> QED
    BY <1>4, <2>1, <2>3
<1>7. Acts \/ MergeAhead \/ MergeTagged
  <2>1. ASSUME UNCHANGED <<frames, selected, focused, known>> PROVE FALSE
    BY <2>1
  <2>2. ~BeginEdit /\ ~CountWindows /\ ~LookAtSide /\ ~LookAcross
    BY <2>1 DEF BeginEdit, CountWindows, LookAtSide, LookAcross, Same
  <2>3. ~TagFrame /\ ~ShowTargetFrame /\ ~CheckFocus
    BY <2>1 DEF TagFrame, ShowTargetFrame, CheckFocus
  <2>4. ~EvalFails /\ ~UserOfEmacs /\ ~EmacsCatchesUp
    BY <2>1 DEF EvalFails, UserOfEmacs, EmacsCatchesUp, Same
  <2>5. ~UNCHANGED emacsVars
    BY <2>1 DEF emacsVars
  <2> QED
    BY <2>2, <2>3, <2>4, <2>5, Zenon DEF EmacsNext
<1> QED
  BY <1>3, <1>4, <1>5, <1>6, <1>7

\* A call on Emacs's frames loses no buffer, whatever happens between its
\* expressions, as long as the user leaves it alone; and what a merge takes
\* away is the frame that was prepared for it, unless Emacs changes its mind
\* about the focus (emacs.rs:258, 297, 324).
THEOREM CallsKeepBuffers == EmacsSpec => FramesKeepBuffers
<1>1. EmacsInit => EInv
  BY EmacsStart, EmacsAssumption
<1>2. EInv /\ [EmacsNext]_emacsVars => EInv'
  BY EmacsStep, EmacsAssumption
<1>3. EInv /\ [EmacsNext]_emacsVars =>
        [edit.pc \in {"act", "ahead", "into"} /\ edit' # edit /\ frames' # frames /\ ~watch.moved =>
          /\ watch.touched \/ watch.shown \subseteq ShownBuffers'
          /\ edit.pc = "act" \/ (tag # 0 /\ frames'[tag] = Closed)]_emacsVars
  BY StepKeepsBuffers, EmacsAssumption
<1> QED
  BY <1>1, <1>2, <1>3, PTL DEF EmacsSpec, FramesKeepBuffers

====
