---------------------------- MODULE ScreenProofs ----------------------------
(***************************************************************************)
(* Proofs about the terminal's screen buffer (TermScreen), for every size  *)
(* of the screen, the scrollback and the sequences' parameters, and any    *)
(* family of handlers.                                                     *)
(*                                                                         *)
(* The inductive invariant ScreenInv says of the terminal object that it   *)
(* is Sound (typed, the cursor's row and the margins on the screen, buffer *)
(* and main screen put aside of the right size) and, in a chunk, that the  *)
(* range to repaint covers every row changed and every one with a cursor   *)
(* (Ranged), from which EndWrite's repaint gets what holds between chunks  *)
(* (Rested).  A margin or saved cursor beyond the screen sets wild, and    *)
(* then only the types and the lines' widths are claimed.                  *)
(*                                                                         *)
(* Each handler is a composition of few assignments.  What one assignment  *)
(* keeps is a lemma (Put...), and so is what one handler keeps: Handled    *)
(* for those that leave the size and the main screen alone, Moved and Step *)
(* for those that may drop that screen, Left for the page's own calls.     *)
(***************************************************************************)
EXTENDS TermScreen, SequenceTheorems, FiniteSetTheorems, WellFoundedInduction, TLAPS

(***************************************************************************)
(* The invariant of the terminal object, in the parts its handlers touch.  *)
(***************************************************************************)
Wide(cols) == {w \in Nat : w >= cols}

\* what AlternateScreen puts aside
Aside ==
    [lines : Seq(Nat), ybase : Nat, ydisp : Nat, x : Columns, y : Nat,
     scrollTop : Nat, scrollBottom : Nat, tabs : SUBSET Nat]

TermRecord ==
    [cols : Nat \ {0}, rows : Nat \ {0}, x : Columns, y : Nat, ybase : Nat, ydisp : Nat,
     lines : Seq(Nat), scrollTop : Nat, scrollBottom : Nat, tabs : SUBSET Nat,
     cursorState : BOOLEAN, modes : SUBSET Flags, normal : Seq(Aside),
     prefix : {"", "?"}, charset : Charsets, glevel : 0..3, charsets : [0..3 -> Charsets],
     savedX : Columns, savedY : Nat, savedCols : Nat, from : Nat, to : Nat,
     dirty : SUBSET Nat, edited : SUBSET Nat, shown : SUBSET Nat, early : SUBSET Nat,
     wild : BOOLEAN, thrown : BOOLEAN]

\* lines for a screen of that size, and the view on them
BufferHolds(lines, ybase, ydisp, cols, rows, wild) ==
    /\ lines \in Seq(Wide(cols))
    /\ ydisp <= ybase /\ ybase < Scrollback
    /\ ~wild => Len(lines) = ybase + rows

CursorHolds(y, scrollTop, scrollBottom, rows, wild) ==
    ~wild => y < rows /\ scrollTop < rows /\ scrollBottom < rows

AsideHolds(normal, cols, rows, wild) ==
    normal # <<>> =>
       LET m == normal[1]
       IN /\ BufferHolds(m.lines, m.ybase, m.ydisp, cols, rows, wild)
          /\ CursorHolds(m.y, m.scrollTop, m.scrollBottom, rows, wild)

Sound(s) ==
    /\ s \in TermRecord
    /\ BufferHolds(s.lines, s.ybase, s.ydisp, s.cols, s.rows, s.wild)
    /\ CursorHolds(s.y, s.scrollTop, s.scrollBottom, s.rows, s.wild)
    /\ Len(s.normal) <= 1
    /\ AsideHolds(s.normal, s.cols, s.rows, s.wild)
    /\ s.charset = s.charsets[s.glevel]
    /\ ~s.wild => ~s.thrown

\* within a chunk: what EndWrite will repaint covers what has changed
Ranged(s) ==
    ~s.wild =>
       /\ s.to < s.rows
       /\ \A r \in s.dirty : r \in s.edited \/ (s.from <= r /\ r <= s.to)
       /\ \A r \in s.shown : r \in s.early \/ (s.from <= r /\ r <= s.to)

\* between chunks
Rested(s) ==
    ~s.wild => s.dirty \subseteq s.edited /\ s.shown \subseteq {s.y} \cup s.early

ScreenInv ==
    /\ Sound(t) /\ t.prefix = ""
    /\ busy \in BOOLEAN /\ family \in Families
    /\ IF busy THEN Ranged(t) ELSE Rested(t)

(***************************************************************************)
(* One field, or a few, at a time.                                         *)
(***************************************************************************)
Frame(s, n) ==
    /\ n.cols = s.cols /\ n.rows = s.rows /\ n.normal = s.normal /\ n.wild = s.wild
    /\ n.prefix = s.prefix
SameBuffer(s, n) == n.lines = s.lines /\ n.ybase = s.ybase /\ n.ydisp = s.ydisp
SameCursor(s, n) ==
    n.y = s.y /\ n.scrollTop = s.scrollTop /\ n.scrollBottom = s.scrollBottom
SameCharset(s, n) == n.charset = s.charset /\ n.charsets = s.charsets /\ n.glevel = s.glevel
SamePaint(s, n) ==
    /\ n.from = s.from /\ n.to = s.to /\ n.dirty = s.dirty /\ n.edited = s.edited
    /\ n.shown = s.shown /\ n.early = s.early

\* a handler that leaves the size, the main screen put aside and wild alone
Handled(s, n) ==
    /\ Sound(n)
    /\ Frame(s, n)
    /\ Ranged(s) => Ranged(n)

\* one handler after another
LEMMA HandledTwice ==
  ASSUME NEW s, NEW m, NEW n, Handled(s, m), Handled(m, n)
  PROVE  Handled(s, n)
  BY Zenon DEF Handled, Frame

\* the range is about nothing but the fields of SamePaint
LEMMA RangedSame ==
  ASSUME NEW s, NEW n, Frame(s, n), SamePaint(s, n), Ranged(s)
  PROVE  Ranged(n)
  BY Zenon DEF Frame, SamePaint, Ranged

\* Sound is about nothing but the fields of Same...
LEMMA SoundSame ==
  ASSUME NEW s, NEW n, Sound(s), n \in TermRecord, Frame(s, n), n.thrown = s.thrown,
         SameBuffer(s, n), SameCursor(s, n), SameCharset(s, n)
  PROVE  Sound(n)
  BY Zenon DEF Sound, Frame, SameBuffer, SameCursor, SameCharset

\* the cursor, on a row of the screen
LEMMA PutPlace ==
  ASSUME NEW s, Sound(s), NEW x \in Columns, NEW y \in Nat, ~s.wild => y < s.rows
  PROVE  Handled(s, [s EXCEPT !.x = x, !.y = y])
<1> DEFINE n == [s EXCEPT !.x = x, !.y = y]
<1>1. s \in TermRecord
  BY DEF Sound
<1>2. n \in TermRecord
  BY <1>1, Zenon DEF TermRecord
<1>3. /\ Frame(s, n) /\ SameBuffer(s, n) /\ SameCharset(s, n) /\ SamePaint(s, n)
      /\ n.thrown = s.thrown /\ n.y = y
      /\ n.scrollTop = s.scrollTop /\ n.scrollBottom = s.scrollBottom
  BY <1>1, Zenon DEF TermRecord, Frame, SameBuffer, SameCharset, SamePaint
<1> HIDE DEF n
<1>4. CursorHolds(n.y, n.scrollTop, n.scrollBottom, n.rows, n.wild)
  BY <1>3, Zenon DEF Sound, CursorHolds, Frame
<1>5. Sound(n)
  BY <1>2, <1>3, <1>4, Zenon DEF Sound, Frame, SameBuffer, SameCharset
<1> QED BY <1>3, <1>5, RangedSame, Zenon DEF Handled, n

(***************************************************************************)
(* Lines: what splicing and slicing do to a sequence over any set.         *)
(***************************************************************************)
LEMMA ConcatSeq ==
  ASSUME NEW S, NEW a \in Seq(S), NEW b \in Seq(S)
  PROVE  a \o b \in Seq(S) /\ Len(a \o b) = Len(a) + Len(b)
  BY ConcatProperties, Zenon

\* splice that inserts: one line more
LEMMA SpliceInSeq ==
  ASSUME NEW S, NEW l \in Seq(S), NEW i \in Nat, NEW w \in S
  PROVE  SpliceIn(l, i, w) \in Seq(S) /\ Len(SpliceIn(l, i, w)) = Len(l) + 1
<1> DEFINE k == Min2(i, Len(l)) + 1
           a == SubSeq(l, 1, k - 1)
           b == SubSeq(l, k, Len(l))
           e == <<w>>
<1>1. k \in Int /\ k - 1 \in 0..Len(l) /\ Len(l) \in Nat /\ k >= 1
  BY DEF Min2
<1>2. \A j \in 1..Len(l) : l[j] \in S
  OBVIOUS
<1>3. SpliceIn(l, i, w) = (a \o e) \o b
  BY Zenon DEF SpliceIn, InsertAt
<1> HIDE DEF k
<1>4. a \in Seq(S) /\ Len(a) = k - 1
  BY <1>1, <1>2, SubSeqProperties
<1>5. b \in Seq(S) /\ Len(b) = Len(l) - (k - 1)
  BY <1>1, <1>2, SubSeqProperties
<1>6. e \in Seq(S) /\ Len(e) = 1
  OBVIOUS
<1> HIDE DEF a, b, e
<1>7. a \o e \in Seq(S) /\ Len(a \o e) = Len(a) + Len(e)
  BY <1>4, <1>6, ConcatSeq, Zenon
<1>8. (a \o e) \o b \in Seq(S) /\ Len((a \o e) \o b) = Len(a \o e) + Len(b)
  BY <1>5, <1>7, ConcatSeq, Zenon
<1> QED BY <1>1, <1>3, <1>4, <1>5, <1>6, <1>7, <1>8

\* splice that removes: one line less, if there is one at that place
LEMMA SpliceOutSeq ==
  ASSUME NEW S, NEW l \in Seq(S), NEW i \in Nat
  PROVE  /\ SpliceOut(l, i) \in Seq(S)
         /\ Len(SpliceOut(l, i)) = IF i < Len(l) THEN Len(l) - 1 ELSE Len(l)
<1>1. CASE i < Len(l)
  <2> DEFINE a == SubSeq(l, 1, i)
             b == SubSeq(l, i + 2, Len(l))
  <2>1. i + 1 - 1 = i /\ i + 1 + 1 = i + 2 /\ Len(l) \in Nat /\ \A j \in 1..Len(l) : l[j] \in S
    OBVIOUS
  <2>2. SpliceOut(l, i) = a \o b
    <3> DEFINE p == (i + 1) - 1
               q == (i + 1) + 1
    <3>1. SpliceOut(l, i) = RemoveAt(l, i + 1)
      BY <1>1, Zenon DEF SpliceOut
    <3>2. RemoveAt(l, i + 1) = SubSeq(l, 1, p) \o SubSeq(l, q, Len(l))
      BY Zenon DEF RemoveAt
    <3>3. p = i /\ q = i + 2
      OBVIOUS
    <3> HIDE DEF p, q
    <3> QED BY <3>1, <3>2, <3>3, Zenon
  <2>3. a \in Seq(S) /\ Len(a) = i
    BY <1>1, <2>1, SubSeqProperties
  <2>4. b \in Seq(S) /\ Len(b) = Len(l) - i - 1
    BY <1>1, <2>1, SubSeqProperties
  <2> HIDE DEF a, b
  <2>5. a \o b \in Seq(S) /\ Len(a \o b) = Len(a) + Len(b)
    BY <2>3, <2>4, ConcatSeq, Zenon
  <2>6. i + (Len(l) - i - 1) = Len(l) - 1
    BY <2>1
  <2> QED BY <1>1, <2>2, <2>3, <2>4, <2>5, <2>6, Zenon
<1>2. CASE ~(i < Len(l))
  BY <1>2 DEF SpliceOut
<1> QED BY <1>1, <1>2

\* slice(-n): the newest n lines, or all
LEMMA NewestSeq ==
  ASSUME NEW S, NEW l \in Seq(S), NEW n \in Nat
  PROVE  Newest(l, n) \in Seq(S) /\ Len(Newest(l, n)) = Min2(n, Len(l))
<1> DEFINE k == Max2(Len(l) - n, 0) + 1
<1>0. Len(l) \in Nat
  OBVIOUS
<1>1. k \in 1..Len(l) + 1 /\ Len(l) - k + 1 = Min2(n, Len(l))
  <2> DEFINE len == Len(l)
  <2> HIDE DEF len
  <2>1. len \in Nat
    BY <1>0 DEF len
  <2>2. Max2(len - n, 0) + 1 \in 1..len + 1 /\ len - (Max2(len - n, 0) + 1) + 1 = Min2(n, len)
    BY <2>1 DEF Max2, Min2
  <2> QED BY <2>2 DEF len
<1>2. Newest(l, n) = SubSeq(l, k, Len(l))
  BY Zenon DEF Newest
<1> HIDE DEF k
<1>3. \A j \in k..Len(l) : l[j] \in S
  BY <1>1
<1> QED BY <1>0, <1>1, <1>2, <1>3, SubSeqProperties DEF Min2

\* induction, for a set of numbers
LEMMA SetInduction ==
  ASSUME NEW S, 0 \in S, \A n \in Nat : n \in S => n + 1 \in S
  PROVE  Nat \subseteq S
<1> SUFFICES ASSUME Nat \ S # {} PROVE FALSE
  OBVIOUS
<1>1. IsWellFoundedOn(OpToRel(<, Nat), Nat)
  BY NatLessThanWellFounded
<1>2. \E x \in Nat \ S : \A y \in Nat \ S : <<y, x>> \notin OpToRel(<, Nat)
  BY <1>1, WFMin
<1>3. PICK x \in Nat \ S : \A y \in Nat \ S : ~(y < x)
  BY <1>2 DEF OpToRel
<1>4. x # 0 /\ x - 1 \in Nat
  BY <1>3
<1> QED BY <1>3, <1>4

\* what each step keeps is kept by any number of them
LEMMA RepeatKeeps ==
  ASSUME NEW P, NEW f, NEW s \in P, NEW n \in Nat, \A x \in P : f[x] \in P
  PROVE  Repeat(n, f, s) \in P
<1> DEFINE F(d, k) == d = [i \in 0..k |-> IF i = 0 THEN s ELSE f[d[i - 1]]]
           S == {k \in Nat : \E d : F(d, k)}
<1>1. 0 \in S
  <2> DEFINE d == [i \in 0..0 |-> s]
  <2>1. F(d, 0)
    OBVIOUS
  <2> HIDE DEF d
  <2>2. \E x : F(x, 0)
    BY <2>1, Zenon
  <2> HIDE DEF F
  <2> QED BY <2>2
<1>2. ASSUME NEW k \in Nat, k \in S PROVE k + 1 \in S
  <2>1. PICK d : F(d, k)
    BY <1>2
  <2> DEFINE v == f[d[k]]
             g == [i \in 0..k + 1 |-> IF i = k + 1 THEN v ELSE d[i]]
  <2>2. F(g, k + 1)
    BY <2>1
  <2> HIDE DEF g
  <2>3. \E x : F(x, k + 1)
    BY <2>2, Zenon
  <2> HIDE DEF F
  <2> QED BY <2>3
<1> HIDE DEF S
<1>3. Nat \subseteq S
  BY <1>1, <1>2, SetInduction, Zenon
<1>4. \E d : F(d, n)
  BY <1>3 DEF S
<1> DEFINE d == CHOOSE d : F(d, n)
<1>5. F(d, n)
  BY <1>4, Zenon
<1>6. Repeat(n, f, s) = d[n]
  BY Zenon DEF Repeat
<1> HIDE DEF d
<1> DEFINE T == {k \in Nat : k <= n => d[k] \in P}
<1>7. 0 \in T
  BY <1>5
<1>8. ASSUME NEW k \in Nat, k \in T PROVE k + 1 \in T
  <2> SUFFICES ASSUME k + 1 <= n PROVE d[k + 1] \in P
    OBVIOUS
  <2>1. d[k] \in P /\ d[k + 1] = f[d[k]]
    BY <1>5, <1>8
  <2> QED BY <2>1
<1> HIDE DEF T
<1>9. Nat \subseteq T
  BY <1>7, <1>8, SetInduction, Zenon
<1> QED BY <1>6, <1>9 DEF T

\* fields the invariant only types
LEMMA PutX ==
  ASSUME NEW s, Sound(s), NEW x \in Columns
  PROVE  Handled(s, [s EXCEPT !.x = x])
<1> DEFINE n == [s EXCEPT !.x = x]
<1>1. s \in TermRecord
  BY DEF Sound
<1>2. n \in TermRecord
  BY <1>1, Zenon DEF TermRecord
<1>3. /\ Frame(s, n) /\ SameBuffer(s, n) /\ SameCursor(s, n) /\ SameCharset(s, n)
      /\ SamePaint(s, n) /\ n.thrown = s.thrown
  BY <1>1, Zenon DEF TermRecord, Frame, SameBuffer, SameCursor, SameCharset, SamePaint
<1> HIDE DEF n
<1>4. Sound(n)
  BY <1>2, <1>3, SoundSame, Zenon
<1> QED BY <1>3, <1>4, RangedSame, Zenon DEF Handled, n

LEMMA PutTabs ==
  ASSUME NEW s, Sound(s), NEW tabs \in SUBSET Nat
  PROVE  Handled(s, [s EXCEPT !.tabs = tabs])
<1> DEFINE n == [s EXCEPT !.tabs = tabs]
<1>1. s \in TermRecord
  BY DEF Sound
<1>2. n \in TermRecord
  BY <1>1, Zenon DEF TermRecord
<1>3. /\ Frame(s, n) /\ SameBuffer(s, n) /\ SameCursor(s, n) /\ SameCharset(s, n)
      /\ SamePaint(s, n) /\ n.thrown = s.thrown
  BY <1>1, Zenon DEF TermRecord, Frame, SameBuffer, SameCursor, SameCharset, SamePaint
<1> HIDE DEF n
<1>4. Sound(n)
  BY <1>2, <1>3, SoundSame, Zenon
<1> QED BY <1>3, <1>4, RangedSame, Zenon DEF Handled, n

LEMMA PutModes ==
  ASSUME NEW s, Sound(s), NEW modes \in SUBSET Flags
  PROVE  Handled(s, [s EXCEPT !.modes = modes])
<1> DEFINE n == [s EXCEPT !.modes = modes]
<1>1. s \in TermRecord
  BY DEF Sound
<1>2. n \in TermRecord
  BY <1>1, Zenon DEF TermRecord
<1>3. /\ Frame(s, n) /\ SameBuffer(s, n) /\ SameCursor(s, n) /\ SameCharset(s, n)
      /\ SamePaint(s, n) /\ n.thrown = s.thrown
  BY <1>1, Zenon DEF TermRecord, Frame, SameBuffer, SameCursor, SameCharset, SamePaint
<1> HIDE DEF n
<1>4. Sound(n)
  BY <1>2, <1>3, SoundSame, Zenon
<1> QED BY <1>3, <1>4, RangedSame, Zenon DEF Handled, n

LEMMA PutShowing ==
  ASSUME NEW s, Sound(s), NEW b \in BOOLEAN
  PROVE  Handled(s, [s EXCEPT !.cursorState = b])
<1> DEFINE n == [s EXCEPT !.cursorState = b]
<1>1. s \in TermRecord
  BY DEF Sound
<1>2. n \in TermRecord
  BY <1>1, Zenon DEF TermRecord
<1>3. /\ Frame(s, n) /\ SameBuffer(s, n) /\ SameCursor(s, n) /\ SameCharset(s, n)
      /\ SamePaint(s, n) /\ n.thrown = s.thrown
  BY <1>1, Zenon DEF TermRecord, Frame, SameBuffer, SameCursor, SameCharset, SamePaint
<1> HIDE DEF n
<1>4. Sound(n)
  BY <1>2, <1>3, SoundSame, Zenon
<1> QED BY <1>3, <1>4, RangedSame, Zenon DEF Handled, n

LEMMA PutSaved ==
  ASSUME NEW s, Sound(s), NEW x \in Columns, NEW y \in Nat
  PROVE  Handled(s, [s EXCEPT !.savedX = x, !.savedY = y])
<1> DEFINE n == [s EXCEPT !.savedX = x, !.savedY = y]
<1>1. s \in TermRecord
  BY DEF Sound
<1>2. n \in TermRecord
  BY <1>1, Zenon DEF TermRecord
<1>3. /\ Frame(s, n) /\ SameBuffer(s, n) /\ SameCursor(s, n) /\ SameCharset(s, n)
      /\ SamePaint(s, n) /\ n.thrown = s.thrown
  BY <1>1, Zenon DEF TermRecord, Frame, SameBuffer, SameCursor, SameCharset, SamePaint
<1> HIDE DEF n
<1>4. Sound(n)
  BY <1>2, <1>3, SoundSame, Zenon
<1> QED BY <1>3, <1>4, RangedSame, Zenon DEF Handled, n

LEMMA PutSavedCols ==
  ASSUME NEW s, Sound(s), NEW c \in Nat
  PROVE  Handled(s, [s EXCEPT !.savedCols = c])
<1> DEFINE n == [s EXCEPT !.savedCols = c]
<1>1. s \in TermRecord
  BY DEF Sound
<1>2. n \in TermRecord
  BY <1>1, Zenon DEF TermRecord
<1>3. /\ Frame(s, n) /\ SameBuffer(s, n) /\ SameCursor(s, n) /\ SameCharset(s, n)
      /\ SamePaint(s, n) /\ n.thrown = s.thrown
  BY <1>1, Zenon DEF TermRecord, Frame, SameBuffer, SameCursor, SameCharset, SamePaint
<1> HIDE DEF n
<1>4. Sound(n)
  BY <1>2, <1>3, SoundSame, Zenon
<1> QED BY <1>3, <1>4, RangedSame, Zenon DEF Handled, n

\* the cursor's row
LEMMA PutY ==
  ASSUME NEW s, Sound(s), NEW y \in Nat, ~s.wild => y < s.rows
  PROVE  Handled(s, [s EXCEPT !.y = y])
<1> DEFINE n == [s EXCEPT !.y = y]
<1>1. s \in TermRecord
  BY DEF Sound
<1>2. n \in TermRecord
  BY <1>1, Zenon DEF TermRecord
<1>3. /\ Frame(s, n) /\ SameBuffer(s, n) /\ SameCharset(s, n) /\ SamePaint(s, n)
      /\ n.thrown = s.thrown /\ n.y = y
      /\ n.scrollTop = s.scrollTop /\ n.scrollBottom = s.scrollBottom
  BY <1>1, Zenon DEF TermRecord, Frame, SameBuffer, SameCharset, SamePaint
<1> HIDE DEF n
<1>4. CursorHolds(n.y, n.scrollTop, n.scrollBottom, n.rows, n.wild)
  BY <1>3, Zenon DEF Sound, CursorHolds, Frame
<1>5. Sound(n)
  BY <1>2, <1>3, <1>4, Zenon DEF Sound, Frame, SameBuffer, SameCharset
<1> QED BY <1>3, <1>5, RangedSame, Zenon DEF Handled, n

\* the buffer and the view
LEMMA PutBuffer ==
  ASSUME NEW s, Sound(s), NEW l, NEW yb \in Nat, NEW yd \in Nat,
         BufferHolds(l, yb, yd, s.cols, s.rows, s.wild)
  PROVE  Handled(s, [s EXCEPT !.ybase = yb, !.ydisp = yd, !.lines = l])
<1> DEFINE n == [s EXCEPT !.ybase = yb, !.ydisp = yd, !.lines = l]
<1>1. s \in TermRecord /\ l \in Seq(Nat)
  <2>1. l \in Seq(Wide(s.cols))
    BY Zenon DEF BufferHolds
  <2>2. Wide(s.cols) \subseteq Nat
    BY Zenon DEF Wide
  <2> QED BY <2>1, <2>2, SeqMonotonic, Zenon DEF Sound
<1>2. n \in TermRecord
  BY <1>1, Zenon DEF TermRecord
<1>3. /\ Frame(s, n) /\ SameCursor(s, n) /\ SameCharset(s, n) /\ SamePaint(s, n)
      /\ n.thrown = s.thrown /\ n.lines = l /\ n.ybase = yb /\ n.ydisp = yd
  BY <1>1, Zenon DEF TermRecord, Frame, SameCursor, SameCharset, SamePaint
<1> HIDE DEF n
<1>4. Sound(n)
  BY <1>2, <1>3, Zenon DEF Sound, Frame, SameCursor, SameCharset
<1> QED BY <1>3, <1>4, RangedSame, Zenon DEF Handled, n

LEMMA PutLines ==
  ASSUME NEW s, Sound(s), NEW l \in Seq(Wide(s.cols)), ~s.wild => Len(l) = Len(s.lines)
  PROVE  Handled(s, [s EXCEPT !.lines = l])
<1> DEFINE n == [s EXCEPT !.lines = l]
<1>1. s \in TermRecord /\ l \in Seq(Nat)
  <2>2. Wide(s.cols) \subseteq Nat
    BY Zenon DEF Wide
  <2> QED BY <2>2, SeqMonotonic, Zenon DEF Sound
<1>2. n \in TermRecord
  BY <1>1, Zenon DEF TermRecord
<1>3. /\ Frame(s, n) /\ SameCursor(s, n) /\ SameCharset(s, n) /\ SamePaint(s, n)
      /\ n.thrown = s.thrown /\ n.lines = l /\ n.ybase = s.ybase /\ n.ydisp = s.ydisp
  BY <1>1, Zenon DEF TermRecord, Frame, SameCursor, SameCharset, SamePaint
<1> HIDE DEF n
<1>4. BufferHolds(l, s.ybase, s.ydisp, s.cols, s.rows, s.wild)
  BY Zenon DEF Sound, BufferHolds
<1>5. Sound(n)
  BY <1>2, <1>3, <1>4, Zenon DEF Sound, Frame, SameCursor, SameCharset
<1> QED BY <1>3, <1>5, RangedSame, Zenon DEF Handled, n

\* an exception: only when a margin or a saved cursor is off the screen
LEMMA ThrowHandled ==
  ASSUME NEW s, Sound(s), s.wild
  PROVE  Handled(s, Throw(s))
<1> DEFINE b == TRUE
           n == [s EXCEPT !.thrown = b]
<1>0. b \in BOOLEAN
  OBVIOUS
<1>1. s \in TermRecord /\ Throw(s) = n
  BY Zenon DEF Sound, Throw
<1> HIDE DEF b
<1>2. n \in TermRecord
  BY <1>0, <1>1, Zenon DEF TermRecord
<1>3. /\ Frame(s, n) /\ SameBuffer(s, n) /\ SameCursor(s, n) /\ SameCharset(s, n)
      /\ SamePaint(s, n)
  BY <1>1, Zenon DEF TermRecord, Frame, SameBuffer, SameCursor, SameCharset, SamePaint
<1> HIDE DEF n
<1>4. Sound(n)
  BY <1>2, <1>3, Zenon DEF Sound, Frame, SameBuffer, SameCursor, SameCharset
<1> QED BY <1>1, <1>3, <1>4, RangedSame, Zenon DEF Handled

(***************************************************************************)
(* Rows to repaint.                                                        *)
(***************************************************************************)
\* the range stretched to a row, or to two rows, of the screen
InRange(s, r) == s.from <= r /\ r <= s.to

\* updateRange stretches the range to a row and keeps all else
LEMMA updateRangeHandled ==
  ASSUME NEW s, Sound(s), NEW r \in Nat, ~s.wild => r < s.rows
  PROVE  /\ Handled(s, updateRange(s, r))
         /\ updateRange(s, r).from = Min2(s.from, r)
         /\ updateRange(s, r).to = Max2(s.to, r)
<1> DEFINE a == Min2(s.from, r)
           b == Max2(s.to, r)
           n == [s EXCEPT !.from = a, !.to = b]
<1>1. s \in TermRecord /\ updateRange(s, r) = n
  BY Zenon DEF Sound, updateRange
<1>2. s.from \in Nat /\ s.to \in Nat /\ s.rows \in Nat /\ s.dirty \subseteq Nat /\ s.shown \subseteq Nat
  BY <1>1, Zenon DEF TermRecord
<1>3. a \in Nat /\ b \in Nat /\ a <= s.from /\ a <= r /\ s.to <= b /\ r <= b
      /\ (b = s.to \/ b = r)
  BY <1>2 DEF Min2, Max2
<1>4. n.from = a /\ n.to = b /\ n.dirty = s.dirty /\ n.edited = s.edited
      /\ n.shown = s.shown /\ n.early = s.early
  BY <1>1, Zenon DEF TermRecord
<1> HIDE DEF a, b
<1>5. n \in TermRecord
  BY <1>1, <1>3, Zenon DEF TermRecord
<1>6. /\ Frame(s, n) /\ SameBuffer(s, n) /\ SameCursor(s, n) /\ SameCharset(s, n)
      /\ n.thrown = s.thrown
  BY <1>1, Zenon DEF TermRecord, Frame, SameBuffer, SameCursor, SameCharset
<1> HIDE DEF n
<1>7. Sound(n)
  BY <1>5, <1>6, SoundSame, Zenon
<1>8. ASSUME Ranged(s) PROVE Ranged(n)
  <2> SUFFICES ASSUME ~n.wild
               PROVE  /\ n.to < n.rows
                      /\ \A q \in n.dirty : q \in n.edited \/ (n.from <= q /\ q <= n.to)
                      /\ \A q \in n.shown : q \in n.early \/ (n.from <= q /\ q <= n.to)
    BY Zenon DEF Ranged
  <2>1. /\ ~s.wild /\ n.rows = s.rows /\ s.to < s.rows
        /\ \A q \in s.dirty : q \in s.edited \/ (s.from <= q /\ q <= s.to)
        /\ \A q \in s.shown : q \in s.early \/ (s.from <= q /\ q <= s.to)
    BY <1>6, <1>8, Zenon DEF Ranged, Frame
  <2> QED BY <1>2, <1>3, <1>4, <2>1
<1> QED BY <1>1, <1>4, <1>6, <1>7, <1>8, Zenon DEF Handled, a, b

\* a row the range covers may be marked changed
LEMMA ChangedHandled ==
  ASSUME NEW s, Sound(s), NEW a \in Nat, NEW b \in Nat,
         ~s.wild => \A r \in Min2(a, b)..Max2(a, b) : r \in s.edited \/ InRange(s, r)
  PROVE  Handled(s, Changed(s, a, b))
<1> DEFINE d == s.dirty \cup (Min2(a, b)..Max2(a, b))
           n == [s EXCEPT !.dirty = d]
<1>1. s \in TermRecord /\ Changed(s, a, b) = n
  BY Zenon DEF Sound, Changed
<1>2. s.dirty \subseteq Nat
  BY <1>1, Zenon DEF TermRecord
<1>3. d \in SUBSET Nat
  BY <1>2 DEF Min2, Max2
<1>4. n.from = s.from /\ n.to = s.to /\ n.dirty = d /\ n.edited = s.edited
      /\ n.shown = s.shown /\ n.early = s.early
  BY <1>1, Zenon DEF TermRecord
<1>d. \A r \in d : r \in s.dirty \/ r \in Min2(a, b)..Max2(a, b)
  OBVIOUS
<1> HIDE DEF d
<1>5. n \in TermRecord
  BY <1>1, <1>3, Zenon DEF TermRecord
<1>6. /\ Frame(s, n) /\ SameBuffer(s, n) /\ SameCursor(s, n) /\ SameCharset(s, n)
      /\ n.thrown = s.thrown
  BY <1>1, Zenon DEF TermRecord, Frame, SameBuffer, SameCursor, SameCharset
<1> HIDE DEF n
<1>7. Sound(n)
  BY <1>5, <1>6, SoundSame, Zenon
<1>8. ASSUME Ranged(s) PROVE Ranged(n)
  BY <1>4, <1>6, <1>8, <1>d, Zenon DEF Ranged, Frame, InRange
<1> QED BY <1>1, <1>6, <1>7, <1>8, Zenon DEF Handled

\* rows a to b changed, and the range told
Marked(s, a, b) == Changed(updateRange(updateRange(s, a), b), a, b)

LEMMA MarkedHandled ==
  ASSUME NEW s, Sound(s), NEW a \in Nat, NEW b \in Nat, ~s.wild => a < s.rows /\ b < s.rows
  PROVE  Handled(s, Marked(s, a, b))
<1> DEFINE u == updateRange(s, a)
           v == updateRange(u, b)
<1>1. Handled(s, u) /\ u.from = Min2(s.from, a) /\ u.to = Max2(s.to, a)
  BY updateRangeHandled, Zenon
<1> HIDE DEF u
<1>2. Handled(u, v) /\ v.from = Min2(u.from, b) /\ v.to = Max2(u.to, b)
  BY <1>1, updateRangeHandled, Zenon DEF Handled, Frame
<1> HIDE DEF v
<1>3. s.from \in Nat /\ s.to \in Nat
  BY Zenon DEF Sound, TermRecord
<1>4. ASSUME NEW r \in Min2(a, b)..Max2(a, b) PROVE v.from <= r /\ r <= v.to
  BY <1>1, <1>2, <1>3, <1>4 DEF Min2, Max2
<1>5. Handled(v, Changed(v, a, b))
  BY <1>2, <1>4, ChangedHandled, Zenon DEF Handled, InRange
<1> QED BY <1>1, <1>2, <1>5, HandledTwice, Zenon DEF Marked, u, v

LEMMA MarkedRow ==
  ASSUME NEW s, Sound(s), NEW a \in Nat, ~s.wild => a < s.rows
  PROVE  Handled(s, Changed(updateRange(s, a), a, a))
<1> DEFINE u == updateRange(s, a)
<1>1. Handled(s, u) /\ u.from = Min2(s.from, a) /\ u.to = Max2(s.to, a)
  BY updateRangeHandled, Zenon
<1> HIDE DEF u
<1>3. s.from \in Nat /\ s.to \in Nat
  BY Zenon DEF Sound, TermRecord
<1>4. ASSUME NEW r \in Min2(a, a)..Max2(a, a) PROVE u.from <= r /\ r <= u.to
  BY <1>1, <1>3, <1>4 DEF Min2, Max2
<1>5. Handled(u, Changed(u, a, a))
  BY <1>1, <1>4, ChangedHandled, Zenon DEF Handled, InRange
<1> QED BY <1>1, <1>5, HandledTwice, Zenon DEF u

\* a row changed that the range is not told of
LEMMA EditedHandled ==
  ASSUME NEW s, Sound(s)
  PROVE  Handled(s, Edited(s))
<1> DEFINE d == s.dirty \cup {s.y}
           e == s.edited \cup {s.y}
           n == [s EXCEPT !.dirty = d, !.edited = e]
<1>1. s \in TermRecord /\ Edited(s) = n
  BY Zenon DEF Sound, Edited
<1>2. s.dirty \subseteq Nat /\ s.edited \subseteq Nat /\ s.y \in Nat
  BY <1>1, Zenon DEF TermRecord
<1>3. d \in SUBSET Nat /\ e \in SUBSET Nat /\ (\A r \in d : r \in s.dirty \/ r \in e)
      /\ s.edited \subseteq e
  BY <1>2, Zenon
<1>4. n.from = s.from /\ n.to = s.to /\ n.dirty = d /\ n.edited = e
      /\ n.shown = s.shown /\ n.early = s.early
  BY <1>1, Zenon DEF TermRecord
<1> HIDE DEF d, e
<1>5. n \in TermRecord
  BY <1>1, <1>3, Zenon DEF TermRecord
<1>6. /\ Frame(s, n) /\ SameBuffer(s, n) /\ SameCursor(s, n) /\ SameCharset(s, n)
      /\ n.thrown = s.thrown
  BY <1>1, Zenon DEF TermRecord, Frame, SameBuffer, SameCursor, SameCharset
<1> HIDE DEF n
<1>7. Sound(n)
  BY <1>5, <1>6, SoundSame, Zenon
<1>8. ASSUME Ranged(s) PROVE Ranged(n)
  BY <1>3, <1>4, <1>6, <1>8, Zenon DEF Ranged, Frame
<1> QED BY <1>1, <1>6, <1>7, <1>8, Zenon DEF Handled

(***************************************************************************)
(* What the record says of a sound terminal.                               *)
(***************************************************************************)
LEMMA SoundTypes ==
  ASSUME NEW s, Sound(s)
  PROVE  /\ s.cols \in Nat \ {0} /\ s.rows \in Nat \ {0} /\ s.x \in Columns /\ s.y \in Nat
         /\ s.ybase \in Nat /\ s.ydisp \in Nat
         /\ s.scrollTop \in Nat /\ s.scrollBottom \in Nat /\ s.tabs \in SUBSET Nat
         /\ s.modes \in SUBSET Flags /\ s.savedX \in Columns /\ s.savedY \in Nat
         /\ s.savedCols \in Nat /\ s.wild \in BOOLEAN
  BY Zenon DEF Sound, TermRecord

LEMMA SoundLines ==
  ASSUME NEW s, Sound(s)
  PROVE  /\ s.lines \in Seq(Wide(s.cols))
         /\ s.ydisp <= s.ybase /\ s.ybase < Scrollback
         /\ ~s.wild => Len(s.lines) = s.ybase + s.rows
  BY Zenon DEF Sound, BufferHolds

LEMMA SoundCursor ==
  ASSUME NEW s, Sound(s)
  PROVE  ~s.wild => s.y < s.rows /\ s.scrollTop < s.rows /\ s.scrollBottom < s.rows
  BY Zenon DEF Sound, CursorHolds

LEMMA WideEnough ==
  ASSUME NEW c \in Nat
  PROVE  c \in Wide(c)
  BY DEF Wide

\* scroll: also when the scrollback is full, and below a top margin
LEMMA scrollHandled ==
  ASSUME NEW s, Sound(s)
  PROVE  Handled(s, scroll(s))
<1> DEFINE full  == s.ybase + 1 = Scrollback
           yb    == IF full THEN (s.ybase + 1) \div 2 ELSE s.ybase + 1
           kept  == IF full THEN Newest(s.lines, yb + s.rows - 1) ELSE s.lines
           grown == SpliceIn(kept, yb + s.scrollBottom, s.cols)
           up    == IF s.scrollTop # 0 /\ yb # 0 THEN yb - 1 ELSE yb
           l     == IF s.scrollTop # 0 THEN SpliceOut(grown, up + s.scrollTop) ELSE grown
           n     == [s EXCEPT !.ybase = up, !.ydisp = up, !.lines = l]
           W     == Wide(s.cols)
<1>0. scroll(s) = Marked(n, s.scrollTop, s.scrollBottom)
  BY Zenon DEF scroll, Marked
<1>1. /\ s.cols \in Nat \ {0} /\ s.rows \in Nat \ {0} /\ s.ybase \in Nat
      /\ s.scrollTop \in Nat /\ s.scrollBottom \in Nat
  BY SoundTypes, Zenon
<1>2. /\ s.lines \in Seq(W) /\ s.ybase < Scrollback
      /\ ~s.wild => Len(s.lines) = s.ybase + s.rows
  BY SoundLines, Zenon
<1>3. ~s.wild => s.scrollTop < s.rows /\ s.scrollBottom < s.rows
  BY SoundCursor, Zenon
<1>4. Scrollback \in Nat /\ Scrollback # 0 /\ Scrollback # 1
  BY ScreenAssumption
<1>5. /\ yb \in Nat /\ yb # 0 /\ yb < Scrollback
      /\ (full => yb <= s.ybase) /\ (~full => yb = s.ybase + 1)
  <2>1. CASE full
    <3>1. s.ybase + 1 \in Nat /\ s.ybase + 1 >= 2 /\ s.ybase + 1 = Scrollback
      BY <1>1, <1>4, <2>1
    <3>2. (s.ybase + 1) \div 2 \in Nat /\ (s.ybase + 1) \div 2 # 0
          /\ (s.ybase + 1) \div 2 < s.ybase + 1
      BY <1>1, <3>1
    <3> QED BY <1>1, <2>1, <3>1, <3>2
  <2>2. CASE ~full
    BY <1>1, <1>2, <1>4, <2>2
  <2> QED BY <2>1, <2>2, Zenon
<1>6. /\ kept \in Seq(W)
      /\ ~s.wild => Len(kept) = yb + s.rows - 1
  <2>1. CASE full
    <3> DEFINE m == yb + s.rows - 1
    <3>1. m \in Nat
      BY <1>1, <1>5
    <3>2. ~s.wild => m <= Len(s.lines)
      BY <1>1, <1>2, <1>5, <2>1
    <3> HIDE DEF m
    <3>3. kept = Newest(s.lines, m)
      BY <2>1, Zenon DEF m
    <3> HIDE DEF kept, full, yb, W
    <3>4. kept \in Seq(W) /\ Len(kept) = Min2(m, Len(s.lines))
      BY <1>2, <3>1, <3>3, NewestSeq, Zenon
    <3>5. Len(s.lines) \in Nat
      BY <1>2
    <3>6. ~s.wild => Min2(m, Len(s.lines)) = m
      BY <3>1, <3>2, <3>5 DEF Min2
    <3> QED BY <3>4, <3>6, Zenon DEF m
  <2>2. CASE ~full
    <3>1. kept = s.lines /\ yb = s.ybase + 1
      BY <2>2, Zenon
    <3> HIDE DEF kept, full, yb, W
    <3> QED BY <1>1, <1>2, <3>1, SMTT(30)
  <2> QED BY <2>1, <2>2, Zenon
<1>7. up \in Nat /\ up < Scrollback /\ (s.scrollTop # 0 => up = yb - 1) /\ (s.scrollTop = 0 => up = yb)
  BY <1>1, <1>4, <1>5
<1> HIDE DEF full, yb, kept, up
<1>8. grown \in Seq(W) /\ Len(grown) = Len(kept) + 1
  <2>1. yb + s.scrollBottom \in Nat
    BY <1>1, <1>5
  <2>2. s.cols \in W
    BY <1>1, WideEnough
  <2> HIDE DEF W
  <2> QED BY <1>6, <2>1, <2>2, SpliceInSeq, Zenon
<1> HIDE DEF grown
<1>9. l \in Seq(W) /\ (~s.wild => Len(l) = up + s.rows)
  <2>1. CASE s.scrollTop # 0
    <3>1. up + s.scrollTop \in Nat
      BY <1>1, <1>7
    <3> DEFINE k == up + s.scrollTop
    <3> HIDE DEF W, k
    <3>2. /\ SpliceOut(grown, k) \in Seq(W)
          /\ Len(SpliceOut(grown, k)) = IF k < Len(grown) THEN Len(grown) - 1 ELSE Len(grown)
      BY <1>8, <3>1, SpliceOutSeq, Zenon DEF k
    <3>3. l = SpliceOut(grown, k)
      BY <2>1, Zenon DEF k
    <3>4. Len(grown) \in Nat
      BY <1>8
    <3>5. ASSUME ~s.wild PROVE k < Len(grown) /\ Len(grown) - 1 = up + s.rows
      <4>1. Len(kept) = yb + s.rows - 1 /\ Len(grown) = Len(kept) + 1 /\ s.scrollTop < s.rows
        BY <1>3, <1>6, <1>8, <3>5, Zenon
      <4>2. up = yb - 1 /\ yb \in Nat
        BY <1>5, <1>7, <2>1, Zenon
      <4>3. Len(grown) = yb + s.rows
        BY <1>1, <4>1, <4>2
      <4>4. k = yb - 1 + s.scrollTop
        BY <4>2 DEF k
      <4> HIDE DEF n, l
      <4>5. k < Len(grown)
        BY <1>1, <4>1, <4>2, <4>3, <4>4
      <4>6. s.rows \in Nat
        BY <1>1
      <4>7. Len(grown) - 1 = up + s.rows
        BY <4>2, <4>3, <4>6
      <4> QED BY <4>5, <4>7, Zenon
    <3> QED BY <3>2, <3>3, <3>5, Zenon
  <2>2. CASE s.scrollTop = 0
    <3>1. l = grown
      BY <2>2, Zenon
    <3>2. ASSUME ~s.wild PROVE Len(grown) = up + s.rows
      <4>1. Len(kept) = yb + s.rows - 1 /\ Len(grown) = Len(kept) + 1
        BY <1>6, <1>8, <3>2, Zenon
      <4> QED BY <1>1, <1>5, <1>7, <2>2, <4>1
    <3> QED BY <1>8, <3>1, <3>2, Zenon
  <2> QED BY <2>1, <2>2, Zenon
<1> HIDE DEF l
<1>10. BufferHolds(l, up, up, s.cols, s.rows, s.wild)
  BY <1>7, <1>9 DEF BufferHolds
<1>11. Handled(s, n)
  BY <1>7, <1>10, PutBuffer, Zenon
<1> HIDE DEF n
<1>12. Handled(n, Marked(n, s.scrollTop, s.scrollBottom))
  BY <1>1, <1>3, <1>11, MarkedHandled, Zenon DEF Handled, Frame
<1> QED BY <1>0, <1>11, <1>12, HandledTwice, Zenon

\* line feed: down, or scroll at the bottom margin
LEMMA lineFeedHandled ==
  ASSUME NEW s, Sound(s)
  PROVE  Handled(s, lineFeed(s))
<1>1. CASE s.y + 1 > s.scrollBottom
  BY <1>1, scrollHandled, Zenon DEF lineFeed
<1>2. CASE ~(s.y + 1 > s.scrollBottom)
  <2>1. s.y + 1 \in Nat /\ (~s.wild => s.y + 1 < s.rows)
    BY <1>2, SoundTypes, SoundCursor
  <2> DEFINE y == s.y + 1
  <2> HIDE DEF y
  <2>2. Handled(s, [s EXCEPT !.y = y])
    BY <2>1, PutY, Zenon DEF y
  <2>3. lineFeed(s) = [s EXCEPT !.y = y]
    BY <1>2, Zenon DEF lineFeed, y
  <2> QED BY <2>2, <2>3, Zenon
<1> QED BY <1>1, <1>2, Zenon

\* sequences as long as l, or any at all
Like(S, l, any) == {m \in Seq(S) : any \/ Len(m) = Len(l)}

\* one line in, one line out: the buffer keeps its length and its lines their width
LEMMA InOut ==
  ASSUME NEW S, NEW l \in Seq(S), NEW i \in Nat, NEW j \in Nat, NEW w \in S,
         NEW any, any \/ j <= Len(l)
  PROVE  SpliceOut(SpliceIn(l, i, w), j) \in Like(S, l, any)
<1> DEFINE m == SpliceIn(l, i, w)
<1>1. m \in Seq(S) /\ Len(m) = Len(l) + 1
  BY SpliceInSeq, Zenon
<1>2. Len(l) \in Nat
  OBVIOUS
<1> HIDE DEF m
<1>3. /\ SpliceOut(m, j) \in Seq(S)
      /\ Len(SpliceOut(m, j)) = IF j < Len(m) THEN Len(m) - 1 ELSE Len(m)
  BY <1>1, SpliceOutSeq, Zenon
<1>4. ASSUME j <= Len(l) PROVE j < Len(m) /\ Len(m) - 1 = Len(l)
  BY <1>1, <1>2, <1>4
<1> QED BY <1>3, <1>4, Zenon DEF m, Like

LEMMA OutIn ==
  ASSUME NEW S, NEW l \in Seq(S), NEW i \in Nat, NEW j \in Nat, NEW w \in S,
         NEW any, any \/ j < Len(l)
  PROVE  SpliceIn(SpliceOut(l, j), i, w) \in Like(S, l, any)
<1> DEFINE m == SpliceOut(l, j)
<1>1. m \in Seq(S) /\ Len(m) = IF j < Len(l) THEN Len(l) - 1 ELSE Len(l)
  BY SpliceOutSeq, Zenon
<1>2. Len(l) \in Nat
  OBVIOUS
<1> HIDE DEF m
<1>3. SpliceIn(m, i, w) \in Seq(S) /\ Len(SpliceIn(m, i, w)) = Len(m) + 1
  BY <1>1, SpliceInSeq, Zenon
<1>4. ASSUME j < Len(l) PROVE Len(m) + 1 = Len(l)
  BY <1>1, <1>2, <1>4
<1> QED BY <1>3, <1>4, Zenon DEF m, Like

LEMMA ParamOr1Nat ==
  ASSUME NEW p \in Nat
  PROVE  ParamOr1(p) \in Nat /\ ParamOr1(p) >= 1
  BY DEF ParamOr1

\* as many lines as before, all wide enough
LinesLike(s) == Like(Wide(s.cols), s.lines, s.wild)

LEMMA LinesLikeNat ==
  ASSUME NEW s, Sound(s)
  PROVE  /\ LinesLike(s) \subseteq Seq(Nat) /\ s.lines \in LinesLike(s)
         /\ \A l \in LinesLike(s) : Handled(s, [s EXCEPT !.lines = l])
<1>1. Wide(s.cols) \subseteq Nat
  BY Zenon DEF Wide
<1>2. Seq(Wide(s.cols)) \subseteq Seq(Nat)
  BY <1>1, SeqMonotonic, Zenon
<1> QED BY <1>2, SoundLines, PutLines, Zenon DEF LinesLike, Like

\* IL, DL, SU and SD exchange lines one by one
LEMMA insertLinesHandled ==
  ASSUME NEW s, Sound(s), NEW p \in Nat
  PROVE  Handled(s, insertLines(s, p))
<1> DEFINE i == s.y + s.ybase
           j == s.ybase + s.scrollBottom + 1
           one == [l \in Seq(Nat) |-> SpliceOut(SpliceIn(l, s.y + s.ybase, s.cols), s.ybase + s.scrollBottom + 1)]
           k == ParamOr1(p)
           l2 == Repeat(k, one, s.lines)
           n == [s EXCEPT !.lines = l2]
<1>0. insertLines(s, p) = Marked(n, s.y, s.scrollBottom)
  BY Zenon DEF insertLines, Marked
<1>1. /\ s.cols \in Nat \ {0} /\ s.rows \in Nat \ {0} /\ s.y \in Nat /\ s.ybase \in Nat
      /\ s.scrollTop \in Nat /\ s.scrollBottom \in Nat
  BY SoundTypes, Zenon
<1>2. ~s.wild => /\ Len(s.lines) = s.ybase + s.rows
                 /\ s.y < s.rows /\ s.scrollTop < s.rows /\ s.scrollBottom < s.rows
  BY SoundLines, SoundCursor, Zenon
<1>3. i \in Nat /\ j \in Nat /\ s.cols \in Wide(s.cols) /\ (~s.wild => j <= Len(s.lines))
  BY <1>1, <1>2, WideEnough, SMTT(30)
<1> HIDE DEF i, j
<1>4. ASSUME NEW l \in LinesLike(s) PROVE one[l] \in LinesLike(s)
  <2>1. l \in Seq(Wide(s.cols)) /\ l \in Seq(Nat) /\ (~s.wild => Len(l) = Len(s.lines))
    BY LinesLikeNat, Zenon DEF LinesLike, Like
  <2> DEFINE m == SpliceOut(SpliceIn(l, i, s.cols), j)
  <2>2. one[l] = m
    BY <2>1, Zenon DEF i, j
  <2>3. s.wild \/ j <= Len(l)
    BY <1>3, <2>1, Zenon
  <2>4. m \in Like(Wide(s.cols), l, s.wild)
    BY <1>3, <2>1, <2>3, InOut, Zenon
  <2> HIDE DEF m, one
  <2> QED BY <2>1, <2>2, <2>4, Zenon DEF LinesLike, Like
<1>5. k \in Nat
  BY ParamOr1Nat, Zenon
<1> HIDE DEF k, one
<1>6. l2 \in LinesLike(s)
  BY <1>4, <1>5, LinesLikeNat, RepeatKeeps, Zenon
<1> HIDE DEF l2
<1>7. Handled(s, n)
  BY <1>6, LinesLikeNat, Zenon
<1> HIDE DEF n
<1>8. Handled(n, Marked(n, s.y, s.scrollBottom))
  BY <1>1, <1>2, <1>7, MarkedHandled, Zenon DEF Handled, Frame
<1> QED BY <1>0, <1>7, <1>8, HandledTwice, Zenon

LEMMA deleteLinesHandled ==
  ASSUME NEW s, Sound(s), NEW p \in Nat
  PROVE  Handled(s, deleteLines(s, p))
<1> DEFINE i == s.ybase + s.scrollBottom + 1
           j == s.y + s.ybase
           one == [l \in Seq(Nat) |-> SpliceOut(SpliceIn(l, s.ybase + s.scrollBottom + 1, s.cols), s.y + s.ybase)]
           k == ParamOr1(p)
           l2 == Repeat(k, one, s.lines)
           n == [s EXCEPT !.lines = l2]
<1>0. deleteLines(s, p) = Marked(n, s.y, s.scrollBottom)
  BY Zenon DEF deleteLines, Marked
<1>1. /\ s.cols \in Nat \ {0} /\ s.rows \in Nat \ {0} /\ s.y \in Nat /\ s.ybase \in Nat
      /\ s.scrollTop \in Nat /\ s.scrollBottom \in Nat
  BY SoundTypes, Zenon
<1>2. ~s.wild => /\ Len(s.lines) = s.ybase + s.rows
                 /\ s.y < s.rows /\ s.scrollTop < s.rows /\ s.scrollBottom < s.rows
  BY SoundLines, SoundCursor, Zenon
<1>3. i \in Nat /\ j \in Nat /\ s.cols \in Wide(s.cols) /\ (~s.wild => j <= Len(s.lines))
  BY <1>1, <1>2, WideEnough, SMTT(30)
<1> HIDE DEF i, j
<1>4. ASSUME NEW l \in LinesLike(s) PROVE one[l] \in LinesLike(s)
  <2>1. l \in Seq(Wide(s.cols)) /\ l \in Seq(Nat) /\ (~s.wild => Len(l) = Len(s.lines))
    BY LinesLikeNat, Zenon DEF LinesLike, Like
  <2> DEFINE m == SpliceOut(SpliceIn(l, i, s.cols), j)
  <2>2. one[l] = m
    BY <2>1, Zenon DEF i, j
  <2>3. s.wild \/ j <= Len(l)
    BY <1>3, <2>1, Zenon
  <2>4. m \in Like(Wide(s.cols), l, s.wild)
    BY <1>3, <2>1, <2>3, InOut, Zenon
  <2> HIDE DEF m, one
  <2> QED BY <2>1, <2>2, <2>4, Zenon DEF LinesLike, Like
<1>5. k \in Nat
  BY ParamOr1Nat, Zenon
<1> HIDE DEF k, one
<1>6. l2 \in LinesLike(s)
  BY <1>4, <1>5, LinesLikeNat, RepeatKeeps, Zenon
<1> HIDE DEF l2
<1>7. Handled(s, n)
  BY <1>6, LinesLikeNat, Zenon
<1> HIDE DEF n
<1>8. Handled(n, Marked(n, s.y, s.scrollBottom))
  BY <1>1, <1>2, <1>7, MarkedHandled, Zenon DEF Handled, Frame
<1> QED BY <1>0, <1>7, <1>8, HandledTwice, Zenon

LEMMA scrollUpHandled ==
  ASSUME NEW s, Sound(s), NEW p \in Nat
  PROVE  Handled(s, scrollUp(s, p))
<1> DEFINE i == s.ybase + s.scrollBottom
           j == s.ybase + s.scrollTop
           one == [l \in Seq(Nat) |-> SpliceIn(SpliceOut(l, s.ybase + s.scrollTop), s.ybase + s.scrollBottom, s.cols)]
           k == ParamOr1(p)
           l2 == Repeat(k, one, s.lines)
           n == [s EXCEPT !.lines = l2]
<1>0. scrollUp(s, p) = Marked(n, s.scrollTop, s.scrollBottom)
  BY Zenon DEF scrollUp, Marked
<1>1. /\ s.cols \in Nat \ {0} /\ s.rows \in Nat \ {0} /\ s.y \in Nat /\ s.ybase \in Nat
      /\ s.scrollTop \in Nat /\ s.scrollBottom \in Nat
  BY SoundTypes, Zenon
<1>2. ~s.wild => /\ Len(s.lines) = s.ybase + s.rows
                 /\ s.y < s.rows /\ s.scrollTop < s.rows /\ s.scrollBottom < s.rows
  BY SoundLines, SoundCursor, Zenon
<1>3. i \in Nat /\ j \in Nat /\ s.cols \in Wide(s.cols) /\ (~s.wild => j < Len(s.lines))
  BY <1>1, <1>2, WideEnough
<1> HIDE DEF i, j
<1>4. ASSUME NEW l \in LinesLike(s) PROVE one[l] \in LinesLike(s)
  <2>1. l \in Seq(Wide(s.cols)) /\ l \in Seq(Nat) /\ (~s.wild => Len(l) = Len(s.lines))
    BY LinesLikeNat, Zenon DEF LinesLike, Like
  <2> DEFINE m == SpliceIn(SpliceOut(l, j), i, s.cols)
  <2>2. one[l] = m
    BY <2>1, Zenon DEF i, j
  <2>3. s.wild \/ j < Len(l)
    BY <1>3, <2>1, Zenon
  <2>4. m \in Like(Wide(s.cols), l, s.wild)
    BY <1>3, <2>1, <2>3, OutIn, Zenon
  <2> HIDE DEF m, one
  <2> QED BY <2>1, <2>2, <2>4, Zenon DEF LinesLike, Like
<1>5. k \in Nat
  BY ParamOr1Nat, Zenon
<1> HIDE DEF k, one
<1>6. l2 \in LinesLike(s)
  BY <1>4, <1>5, LinesLikeNat, RepeatKeeps, Zenon
<1> HIDE DEF l2
<1>7. Handled(s, n)
  BY <1>6, LinesLikeNat, Zenon
<1> HIDE DEF n
<1>8. Handled(n, Marked(n, s.scrollTop, s.scrollBottom))
  BY <1>1, <1>2, <1>7, MarkedHandled, Zenon DEF Handled, Frame
<1> QED BY <1>0, <1>7, <1>8, HandledTwice, Zenon

LEMMA scrollDownHandled ==
  ASSUME NEW s, Sound(s), NEW p \in Nat
  PROVE  Handled(s, scrollDown(s, p))
<1> DEFINE i == s.ybase + s.scrollTop
           j == s.ybase + s.scrollBottom
           one == [l \in Seq(Nat) |-> SpliceIn(SpliceOut(l, s.ybase + s.scrollBottom), s.ybase + s.scrollTop, s.cols)]
           k == ParamOr1(p)
           l2 == Repeat(k, one, s.lines)
           n == [s EXCEPT !.lines = l2]
<1>0. scrollDown(s, p) = Marked(n, s.scrollTop, s.scrollBottom)
  BY Zenon DEF scrollDown, Marked
<1>1. /\ s.cols \in Nat \ {0} /\ s.rows \in Nat \ {0} /\ s.y \in Nat /\ s.ybase \in Nat
      /\ s.scrollTop \in Nat /\ s.scrollBottom \in Nat
  BY SoundTypes, Zenon
<1>2. ~s.wild => /\ Len(s.lines) = s.ybase + s.rows
                 /\ s.y < s.rows /\ s.scrollTop < s.rows /\ s.scrollBottom < s.rows
  BY SoundLines, SoundCursor, Zenon
<1>3. i \in Nat /\ j \in Nat /\ s.cols \in Wide(s.cols) /\ (~s.wild => j < Len(s.lines))
  BY <1>1, <1>2, WideEnough
<1> HIDE DEF i, j
<1>4. ASSUME NEW l \in LinesLike(s) PROVE one[l] \in LinesLike(s)
  <2>1. l \in Seq(Wide(s.cols)) /\ l \in Seq(Nat) /\ (~s.wild => Len(l) = Len(s.lines))
    BY LinesLikeNat, Zenon DEF LinesLike, Like
  <2> DEFINE m == SpliceIn(SpliceOut(l, j), i, s.cols)
  <2>2. one[l] = m
    BY <2>1, Zenon DEF i, j
  <2>3. s.wild \/ j < Len(l)
    BY <1>3, <2>1, Zenon
  <2>4. m \in Like(Wide(s.cols), l, s.wild)
    BY <1>3, <2>1, <2>3, OutIn, Zenon
  <2> HIDE DEF m, one
  <2> QED BY <2>1, <2>2, <2>4, Zenon DEF LinesLike, Like
<1>5. k \in Nat
  BY ParamOr1Nat, Zenon
<1> HIDE DEF k, one
<1>6. l2 \in LinesLike(s)
  BY <1>4, <1>5, LinesLikeNat, RepeatKeeps, Zenon
<1> HIDE DEF l2
<1>7. Handled(s, n)
  BY <1>6, LinesLikeNat, Zenon
<1> HIDE DEF n
<1>8. Handled(n, Marked(n, s.scrollTop, s.scrollBottom))
  BY <1>1, <1>2, <1>7, MarkedHandled, Zenon DEF Handled, Frame
<1> QED BY <1>0, <1>7, <1>8, HandledTwice, Zenon

\* reverse index: up, or a line in at the top margin and one out at the bottom
LEMMA reverseIndexHandled ==
  ASSUME NEW s, Sound(s)
  PROVE  Handled(s, reverseIndex(s))
<1>1. /\ s.cols \in Nat \ {0} /\ s.rows \in Nat \ {0} /\ s.y \in Nat /\ s.ybase \in Nat
      /\ s.scrollTop \in Nat /\ s.scrollBottom \in Nat
  BY SoundTypes, Zenon
<1>2. ~s.wild => /\ Len(s.lines) = s.ybase + s.rows
                 /\ s.y < s.rows /\ s.scrollTop < s.rows /\ s.scrollBottom < s.rows
  BY SoundLines, SoundCursor, Zenon
<1>3. CASE s.y - 1 >= s.scrollTop
  <2> DEFINE y == s.y - 1
  <2>1. y \in Nat /\ (~s.wild => y < s.rows)
    BY <1>1, <1>2, <1>3
  <2>2. reverseIndex(s) = [s EXCEPT !.y = y]
    BY <1>3, Zenon DEF reverseIndex
  <2> HIDE DEF y
  <2> QED BY <2>1, <2>2, PutY, Zenon
<1>4. CASE ~(s.y - 1 >= s.scrollTop)
  <2> DEFINE i == s.y + s.ybase
             j == s.ybase + s.scrollBottom + 1
             l == SpliceOut(SpliceIn(s.lines, i, s.cols), j)
             e == s.edited \cup (s.y..s.scrollTop - 1)
             m == [s EXCEPT !.lines = l]
             n == [m EXCEPT !.edited = e]
             u == updateRange(n, s.scrollTop)
             v == updateRange(u, s.scrollBottom)
  <2>0. s \in TermRecord
    BY DEF Sound
  <2>1. reverseIndex(s) = Changed(v, s.y, s.scrollBottom)
    <3>1. [s EXCEPT !.lines = l, !.edited = e] = n
      BY <2>0, Zenon DEF TermRecord
    <3> QED BY <1>4, <3>1, Zenon DEF reverseIndex
  <2>2. i \in Nat /\ j \in Nat /\ s.cols \in Wide(s.cols) /\ (s.wild \/ j <= Len(s.lines))
        /\ s.lines \in Seq(Wide(s.cols))
    <3>1. i \in Nat /\ j \in Nat /\ s.cols \in Wide(s.cols) /\ (~s.wild => j <= Len(s.lines))
      BY <1>1, <1>2, WideEnough
    <3> HIDE DEF i, j
    <3> QED BY <3>1, SoundLines, Zenon
  <2>e. e \in SUBSET Nat /\ s.edited \subseteq e /\ \A r \in s.y..s.scrollTop - 1 : r \in e
    <3>1. s.edited \subseteq Nat
      BY <2>0, Zenon DEF TermRecord
    <3> QED BY <1>1, <3>1
  <2> HIDE DEF i, j
  <2>3. l \in LinesLike(s)
    BY <2>2, InOut, Zenon DEF LinesLike
  <2> HIDE DEF l
  <2>4. Handled(s, m)
    BY <2>3, LinesLikeNat, Zenon
  <2>m. m.edited = s.edited
    BY <2>0, Zenon DEF TermRecord
  <2> HIDE DEF m, e
  <2>5. Handled(m, n) /\ n.edited = e
    <3>1. m \in TermRecord /\ Sound(m)
      BY <2>4, Zenon DEF Handled, Sound
    <3>2. n \in TermRecord
      BY <2>e, <3>1, Zenon DEF TermRecord
    <3>3. /\ Frame(m, n) /\ SameBuffer(m, n) /\ SameCursor(m, n) /\ SameCharset(m, n)
          /\ n.thrown = m.thrown
          /\ n.from = m.from /\ n.to = m.to /\ n.dirty = m.dirty /\ n.edited = e
          /\ n.shown = m.shown /\ n.early = m.early
      BY <3>1, Zenon DEF TermRecord, Frame, SameBuffer, SameCursor, SameCharset
    <3> HIDE DEF n
    <3>4. Sound(n)
      BY <3>1, <3>2, <3>3, SoundSame, Zenon
    <3>5. ASSUME Ranged(m) PROVE Ranged(n)
      BY <2>e, <2>m, <3>3, <3>5, Zenon DEF Ranged, Frame
    <3> QED BY <3>3, <3>4, <3>5, Zenon DEF Handled
  <2> HIDE DEF n
  <2>6. Handled(s, n)
    BY <2>4, <2>5, HandledTwice, Zenon
  <2>7. /\ Handled(n, u) /\ u.from = Min2(n.from, s.scrollTop) /\ u.to = Max2(n.to, s.scrollTop)
        /\ u.edited = n.edited
    <3>1. Sound(n) /\ (~n.wild => s.scrollTop < n.rows) /\ n \in TermRecord
      BY <1>2, <2>6, Zenon DEF Handled, Frame, Sound
    <3>2. u.edited = n.edited
      BY <3>1, Zenon DEF TermRecord, updateRange
    <3> QED BY <1>1, <3>1, <3>2, updateRangeHandled, Zenon
  <2> HIDE DEF u
  <2>8. /\ Handled(u, v) /\ v.from = Min2(u.from, s.scrollBottom) /\ v.to = Max2(u.to, s.scrollBottom)
        /\ v.edited = u.edited
    <3>1. Sound(u) /\ (~u.wild => s.scrollBottom < u.rows) /\ u \in TermRecord
      BY <1>2, <2>6, <2>7, Zenon DEF Handled, Frame, Sound
    <3>2. v.edited = u.edited
      BY <3>1, Zenon DEF TermRecord, updateRange
    <3> QED BY <1>1, <3>1, <3>2, updateRangeHandled, Zenon
  <2> HIDE DEF v
  <2>9. n.from \in Nat /\ n.to \in Nat
    BY <2>6, Zenon DEF Handled, Sound, TermRecord
  <2>10. ASSUME NEW r \in Min2(s.y, s.scrollBottom)..Max2(s.y, s.scrollBottom)
         PROVE  r \in v.edited \/ InRange(v, r)
    <3> SUFFICES ASSUME ~(r \in s.y..s.scrollTop - 1) PROVE v.from <= r /\ r <= v.to
      BY <2>e, <2>5, <2>7, <2>8, Zenon DEF InRange
    <3>1. v.from <= s.scrollTop /\ v.from <= s.scrollBottom
          /\ s.scrollTop <= v.to /\ s.scrollBottom <= v.to /\ v.from \in Int /\ v.to \in Int
      BY <1>1, <2>7, <2>8, <2>9 DEF Min2, Max2
    <3> QED BY <1>1, <1>4, <3>1 DEF Min2, Max2
  <2>11. Handled(v, Changed(v, s.y, s.scrollBottom))
    BY <1>1, <2>8, <2>10, ChangedHandled, Zenon DEF Handled
  <2>12. Handled(s, v)
    BY <2>6, <2>7, <2>8, HandledTwice, Zenon
  <2> QED BY <2>1, <2>11, <2>12, HandledTwice, Zenon
<1> QED BY <1>3, <1>4, Zenon

(***************************************************************************)
(* Cells.                                                                  *)
(***************************************************************************)
\* every row of the screen has a line
LEMMA RowHasLine ==
  ASSUME NEW s, Sound(s), NEW r \in Nat, r < s.rows, ~s.wild
  PROVE  HasLine(s, r)
<1>1. s.ybase \in Nat /\ s.rows \in Nat /\ Len(s.lines) = s.ybase + s.rows
  BY SoundTypes, SoundLines
<1>2. DOMAIN s.lines = 1..Len(s.lines)
  BY SoundLines
<1>3. s.ybase + r + 1 \in 1..s.ybase + s.rows
  BY <1>1
<1> QED BY <1>1, <1>2, <1>3, Zenon DEF HasLine

\* a write beyond the end of a line makes it longer
LEMMA WithWidthHandled ==
  ASSUME NEW s, Sound(s), NEW r \in Nat, HasLine(s, r), NEW w \in Int
  PROVE  Handled(s, WithWidth(s, r, w))
<1> DEFINE i == s.ybase + r + 1
           W == Wide(s.cols)
           q == s.lines
           e == Max2(q[i], w)
           l == [q EXCEPT ![i] = e]
<1>1. q \in Seq(W)
  BY SoundLines, Zenon
<1>2. i \in 1..Len(q)
  BY <1>1 DEF HasLine
<1>3. e \in W
  <2>1. q[i] \in W
    BY <1>1, <1>2
  <2> HIDE DEF q, i
  <2>2. q[i] \in Nat /\ q[i] >= s.cols /\ s.cols \in Nat
    BY <2>1, SoundTypes DEF Wide
  <2> QED BY <2>2 DEF Wide, Max2
<1>4. WithWidth(s, r, w) = [s EXCEPT !.lines = l]
  BY Zenon DEF WithWidth
<1> HIDE DEF i, W, q, e
<1>5. l \in Seq(W) /\ Len(l) = Len(q)
  BY <1>1, <1>2, <1>3, ExceptSeq
<1> HIDE DEF l
<1> QED BY <1>4, <1>5, PutLines, Zenon DEF W, q

\* no line: only when something is off the screen
LEMMA NoLineThrows ==
  ASSUME NEW s, Sound(s), NEW r \in Nat, ~s.wild => r < s.rows, ~HasLine(s, r)
  PROVE  Handled(s, Throw(s))
<1>1. s.wild
  BY RowHasLine, Zenon
<1> QED BY <1>1, ThrowHandled, Zenon

LEMMA PlusColumn ==
  ASSUME NEW x \in Columns, NEW n \in Nat
  PROVE  Plus(x, n) \in Columns
  BY DEF Plus, Columns, NaN

LEMMA ColumnInt ==
  ASSUME NEW x \in Columns
  PROVE  x \in Int /\ (x # NaN => x \in Nat)
  BY DEF Columns, NaN

\* a character, wide or not, with the wrap at the right margin
LEMMA GraphicHandled ==
  ASSUME NEW s, Sound(s), NEW wide \in BOOLEAN
  PROVE  Handled(s, Graphic(s, wide))
<1> DEFINE w == IF s.x >= s.cols THEN lineFeed([s EXCEPT !.x = 0]) ELSE s
           n == IF wide /\ w.cols >= 2 /\ w.x # NaN /\ w.x + 1 < w.cols THEN 2 ELSE 1
           q == Plus(w.x, n)
           v == WithWidth(w, w.y, q)
           u == [v EXCEPT !.x = q]
<1>1. Graphic(s, wide) = IF ~HasLine(w, w.y) THEN Throw(w)
                         ELSE Changed(updateRange(u, w.y), w.y, w.y)
  BY Zenon DEF Graphic
<1>2. Handled(s, w)
  <2>1. CASE s.x >= s.cols
    <3> DEFINE z == 0
               m == [s EXCEPT !.x = z]
    <3>1. z \in Columns
      BY DEF Columns
    <3> HIDE DEF z
    <3>2. Handled(s, m)
      BY <3>1, PutX, Zenon
    <3>3. w = lineFeed(m)
      BY <2>1, Zenon DEF z
    <3> HIDE DEF m, w
    <3>4. Handled(m, lineFeed(m))
      BY <3>2, lineFeedHandled, Zenon DEF Handled
    <3> QED BY <3>2, <3>3, <3>4, HandledTwice, Zenon
  <2>2. CASE ~(s.x >= s.cols)
    BY <2>2, Zenon DEF Handled, Frame
  <2> QED BY <2>1, <2>2, Zenon
<1>n. n \in Nat
  OBVIOUS
<1> HIDE DEF w, n
<1>3. Sound(w) /\ w.y \in Nat /\ w.x \in Columns /\ (~w.wild => w.y < w.rows)
  BY <1>2, SoundTypes, SoundCursor, Zenon DEF Handled
<1>4. CASE ~HasLine(w, w.y)
  <2>1. Handled(w, Throw(w))
    BY <1>3, <1>4, NoLineThrows, Zenon
  <2> QED BY <1>1, <1>2, <1>4, <2>1, HandledTwice, Zenon
<1>5. CASE HasLine(w, w.y)
  <2>1. q \in Columns
    BY <1>3, <1>n, PlusColumn, Zenon
  <2>2. q \in Int
    BY <2>1, ColumnInt
  <2> HIDE DEF q
  <2>3. Handled(w, v)
    BY <1>3, <1>5, <2>2, WithWidthHandled, Zenon
  <2> HIDE DEF v
  <2>4. Handled(v, u)
    BY <2>1, <2>3, PutX, Zenon DEF Handled
  <2> HIDE DEF u
  <2>5. Handled(w, u)
    BY <2>3, <2>4, HandledTwice, Zenon
  <2> DEFINE y == w.y
  <2>6. y \in Nat /\ (~u.wild => y < u.rows) /\ Sound(u)
    BY <1>3, <2>5, Zenon DEF Handled, Frame
  <2>7. Graphic(s, wide) = Changed(updateRange(u, y), y, y)
    BY <1>1, <1>5, Zenon
  <2> HIDE DEF y
  <2>8. Handled(u, Changed(updateRange(u, y), y, y))
    BY <2>6, MarkedRow, Zenon
  <2> QED BY <1>2, <2>5, <2>7, <2>8, HandledTwice, Zenon
<1> QED BY <1>4, <1>5, Zenon

LEMMA HandledSelf ==
  ASSUME NEW s, Sound(s)
  PROVE  Handled(s, s)
  BY Zenon DEF Handled, Frame

\* ED and EL erase to the right, to the left, or whole rows
LEMMA eraseRightHandled ==
  ASSUME NEW s, Sound(s), NEW x \in Columns, NEW r \in Nat, ~s.wild => r < s.rows
  PROVE  Handled(s, eraseRight(s, x, r))
<1> DEFINE inside == x # NaN /\ x < s.cols
           m == IF inside THEN WithWidth(s, r, s.cols) ELSE s
<1>1. CASE ~HasLine(s, r) /\ inside
  BY <1>1, NoLineThrows, Zenon DEF eraseRight
<1>2. CASE ~(~HasLine(s, r) /\ inside)
  <2>1. eraseRight(s, x, r) = Changed(updateRange(m, r), r, r)
    BY <1>2, Zenon DEF eraseRight
  <2>2. Handled(s, m)
    <3> DEFINE c == s.cols
    <3>1. c \in Int
      BY SoundTypes
    <3> HIDE DEF c
    <3>2. HasLine(s, r) => Handled(s, WithWidth(s, r, c))
      BY <3>1, WithWidthHandled, Zenon
    <3> QED BY <1>2, <3>2, HandledSelf, Zenon DEF c
  <2> HIDE DEF m
  <2>3. Handled(m, Changed(updateRange(m, r), r, r))
    BY <2>2, MarkedRow, Zenon DEF Handled, Frame
  <2> QED BY <2>1, <2>2, <2>3, HandledTwice, Zenon
<1> QED BY <1>1, <1>2, Zenon

LEMMA eraseLeftHandled ==
  ASSUME NEW s, Sound(s), NEW x \in Columns, NEW r \in Nat, ~s.wild => r < s.rows
  PROVE  Handled(s, eraseLeft(s, x, r))
<1> DEFINE m == IF x # NaN THEN WithWidth(s, r, x + 1) ELSE s
<1>1. CASE ~HasLine(s, r) /\ x # NaN
  BY <1>1, NoLineThrows, Zenon DEF eraseLeft
<1>2. CASE ~(~HasLine(s, r) /\ x # NaN)
  <2>1. eraseLeft(s, x, r) = Changed(updateRange(m, r), r, r)
    BY <1>2, Zenon DEF eraseLeft
  <2>2. Handled(s, m)
    <3> DEFINE c == x + 1
    <3>1. c \in Int
      BY ColumnInt
    <3> HIDE DEF c
    <3>2. HasLine(s, r) => Handled(s, WithWidth(s, r, c))
      BY <3>1, WithWidthHandled, Zenon
    <3> QED BY <1>2, <3>2, HandledSelf, Zenon DEF c
  <2> HIDE DEF m
  <2>3. Handled(m, Changed(updateRange(m, r), r, r))
    BY <2>2, MarkedRow, Zenon DEF Handled, Frame
  <2> QED BY <2>1, <2>2, <2>3, HandledTwice, Zenon
<1> QED BY <1>1, <1>2, Zenon

LEMMA EraseRowsHandled ==
  ASSUME NEW s, Sound(s), NEW a \in Nat, NEW b \in Int, ~s.wild => b < s.rows
  PROVE  Handled(s, EraseRows(s, a, b))
<1> DEFINE q == s.lines
           e == [i \in DOMAIN q |->
                   IF i - s.ybase - 1 \in a..b THEN Max2(q[i], s.cols) ELSE q[i]]
           n == [s EXCEPT !.lines = e]
<1>1. CASE s.thrown \/ a > b
  BY <1>1, HandledSelf, Zenon DEF EraseRows
<1>2. CASE ~(s.thrown \/ a > b) /\ \E r \in a..b : ~HasLine(s, r)
  <2>1. EraseRows(s, a, b) = Throw(s)
    BY <1>2, Zenon DEF EraseRows
  <2>2. PICK r \in a..b : ~HasLine(s, r)
    BY <1>2
  <2>3. r \in Nat /\ (~s.wild => r < s.rows)
    BY SoundTypes
  <2> QED BY <2>1, <2>2, <2>3, NoLineThrows, Zenon
<1>3. CASE ~(s.thrown \/ a > b) /\ ~\E r \in a..b : ~HasLine(s, r)
  <2>1. EraseRows(s, a, b) = Marked(n, a, b)
    BY <1>3, Zenon DEF EraseRows, Marked
  <2>2. b \in Nat /\ a <= b
    BY <1>3
  <2>3. e \in Seq(Wide(s.cols)) /\ Len(e) = Len(q)
    <3> DEFINE W == Wide(s.cols)
               k == Len(q)
    <3>1. q \in Seq(W) /\ k \in Nat /\ DOMAIN q = 1..k
      BY SoundLines
    <3>2. ASSUME NEW i \in 1..k PROVE e[i] \in W
      <4>1. q[i] \in W
        BY <3>1
      <4> DEFINE v == q[i]
      <4> HIDE DEF v, q
      <4>2. v \in Nat /\ v >= s.cols /\ s.cols \in Nat
        BY <4>1, SoundTypes DEF Wide, v
      <4>3. Max2(v, s.cols) \in W /\ v \in W
        BY <4>2 DEF Wide, Max2
      <4>4. e[i] = IF i - s.ybase - 1 \in a..b THEN Max2(v, s.cols) ELSE v
        BY <3>1, Zenon DEF v
      <4> HIDE DEF e, W
      <4> QED BY <4>3, <4>4, Zenon
    <3>3. DOMAIN e = 1..k
      BY <3>1, Zenon
    <3>4. e = [i \in 1..k |-> e[i]]
      BY <3>1, Zenon
    <3> HIDE DEF e, W, q, k
    <3>5. e \in [1..k -> W]
      BY <3>2, <3>4, Zenon
    <3>6. e \in Seq(W) /\ Len(e) = k
      BY <3>1, <3>5
    <3> QED BY <3>6, Zenon DEF W, k
  <2> HIDE DEF e
  <2>4. Handled(s, n)
    BY <2>3, PutLines, Zenon
  <2> HIDE DEF n
  <2>5. ~n.wild => a < n.rows /\ b < n.rows
    <3>1. n.wild = s.wild /\ n.rows = s.rows /\ s.rows \in Nat
      BY <2>4, SoundTypes, Zenon DEF Handled, Frame
    <3> QED BY <2>2, <3>1
  <2>6. Handled(n, Marked(n, a, b))
    BY <2>2, <2>4, <2>5, MarkedHandled, Zenon DEF Handled
  <2> QED BY <2>1, <2>4, <2>6, HandledTwice, Zenon
<1> QED BY <1>1, <1>2, <1>3, Zenon

(***************************************************************************)
(* Parameters of a sequence.                                               *)
(***************************************************************************)
LEMMA eraseInDisplayHandled ==
  ASSUME NEW s, Sound(s), NEW p \in Nat
  PROVE  Handled(s, eraseInDisplay(s, p))
<1> DEFINE r == eraseRight(s, s.x, s.y)
           l == eraseLeft(s, s.x, s.y)
<1>d. eraseInDisplay(s, p) = IF p = 0 THEN EraseRows(r, s.y + 1, s.rows - 1)
                             ELSE IF p = 1 THEN EraseRows(l, 0, s.y - 1)
                             ELSE IF p = 2 THEN EraseRows(s, 0, s.rows - 1) ELSE s
  BY DEF eraseInDisplay
<1>1. s.x \in Columns /\ s.y \in Nat /\ s.rows \in Nat /\ (~s.wild => s.y < s.rows)
  BY SoundTypes, SoundCursor
<1>2. Handled(s, r) /\ Handled(s, l)
  BY <1>1, eraseRightHandled, eraseLeftHandled, Zenon
<1> HIDE DEF r, l
<1>3. CASE p = 0
  <2> DEFINE a == s.y + 1
             b == s.rows - 1
  <2>1. a \in Nat /\ b \in Int /\ b < s.rows
    BY <1>1
  <2>2. eraseInDisplay(s, p) = EraseRows(r, a, b)
    BY <1>3, <1>d, Zenon
  <2> HIDE DEF a, b
  <2>3. Handled(r, EraseRows(r, a, b))
    BY <1>2, <2>1, EraseRowsHandled, Zenon DEF Handled, Frame
  <2> QED BY <1>2, <2>2, <2>3, HandledTwice, Zenon
<1>4. CASE p = 1
  <2> DEFINE a == 0
             b == s.y - 1
  <2>1. a \in Nat /\ b \in Int /\ (~s.wild => b < s.rows)
    BY <1>1
  <2>2. eraseInDisplay(s, p) = EraseRows(l, a, b)
    BY <1>4, <1>d
  <2> HIDE DEF a, b
  <2>3. Handled(l, EraseRows(l, a, b))
    BY <1>2, <2>1, EraseRowsHandled, Zenon DEF Handled, Frame
  <2> QED BY <1>2, <2>2, <2>3, HandledTwice, Zenon
<1>5. CASE p = 2
  <2> DEFINE a == 0
             b == s.rows - 1
  <2>1. a \in Nat /\ b \in Int /\ b < s.rows
    BY <1>1
  <2>2. eraseInDisplay(s, p) = EraseRows(s, a, b)
    BY <1>5, <1>d
  <2> HIDE DEF a, b
  <2> QED BY <2>1, <2>2, EraseRowsHandled, Zenon
<1>6. CASE p # 0 /\ p # 1 /\ p # 2
  <2>1. eraseInDisplay(s, p) = s
    BY <1>6, <1>d, Zenon
  <2> QED BY <2>1, HandledSelf, Zenon
<1> QED BY <1>3, <1>4, <1>5, <1>6, Zenon

LEMMA eraseInLineHandled ==
  ASSUME NEW s, Sound(s), NEW p \in Nat
  PROVE  Handled(s, eraseInLine(s, p))
<1> DEFINE z == 0
<1>1. s.x \in Columns /\ s.y \in Nat /\ z \in Columns /\ (~s.wild => s.y < s.rows)
  BY SoundTypes, SoundCursor DEF Columns
<1>2. eraseInLine(s, p) = IF p = 0 THEN eraseRight(s, s.x, s.y)
                          ELSE IF p = 1 THEN eraseLeft(s, s.x, s.y)
                          ELSE IF p = 2 THEN eraseRight(s, z, s.y) ELSE s
  BY DEF eraseInLine
<1> HIDE DEF z
<1>3. /\ Handled(s, eraseRight(s, s.x, s.y)) /\ Handled(s, eraseRight(s, z, s.y))
      /\ Handled(s, eraseLeft(s, s.x, s.y)) /\ Handled(s, s)
  BY <1>1, eraseRightHandled, eraseLeftHandled, HandledSelf, Zenon
<1> QED BY <1>2, <1>3, Zenon

\* ICH, ECH, DCH and REP: the row is changed without the range
LEMMA insertCharsHandled ==
  ASSUME NEW s, Sound(s), NEW p \in Nat
  PROVE  Handled(s, insertChars(s, p))
<1>1. s.y \in Nat /\ (~s.wild => s.y < s.rows)
  BY SoundTypes, SoundCursor
<1>2. ~HasLine(s, s.y) => Handled(s, Throw(s))
  BY <1>1, NoLineThrows, Zenon
<1> QED BY <1>2, HandledSelf, EditedHandled, Zenon DEF insertChars

LEMMA eraseCharsHandled ==
  ASSUME NEW s, Sound(s), NEW p \in Nat
  PROVE  Handled(s, eraseChars(s, p))
  BY insertCharsHandled, Zenon DEF eraseChars

LEMMA deleteCharsHandled ==
  ASSUME NEW s, Sound(s), NEW p \in Nat
  PROVE  Handled(s, deleteChars(s, p))
<1> DEFINE i == s.ybase + s.y + 1
           q == s.lines
           w == q[i]
           v == IF s.x < w THEN w ELSE Min2(w + ParamOr1(p), s.x + 1)
           m == WithWidth(s, s.y, v)
<1>1. s.x \in Columns /\ s.y \in Nat /\ (~s.wild => s.y < s.rows)
  BY SoundTypes, SoundCursor
<1>2. CASE ~HasLine(s, s.y)
  BY <1>1, <1>2, NoLineThrows, Zenon DEF deleteChars
<1>3. CASE HasLine(s, s.y)
  <2>1. deleteChars(s, p) = Edited(m)
    BY <1>3, Zenon DEF deleteChars
  <2>2. w \in Nat
    <3>1. q \in Seq(Wide(s.cols)) /\ i \in DOMAIN q
      BY <1>3, SoundLines, Zenon DEF HasLine
    <3> HIDE DEF q, i
    <3>2. q[i] \in Wide(s.cols)
      BY <3>1
    <3> QED BY <3>2, Zenon DEF Wide
  <2> HIDE DEF w
  <2>3. v \in Int
    BY <1>1, <2>2, ParamOr1Nat DEF Min2, Columns, NaN
  <2> HIDE DEF v
  <2>4. Handled(s, m)
    BY <1>1, <1>3, <2>3, WithWidthHandled, Zenon
  <2> HIDE DEF m
  <2>5. Handled(m, Edited(m))
    BY <2>4, EditedHandled, Zenon DEF Handled
  <2> QED BY <2>1, <2>4, <2>5, HandledTwice, Zenon
<1> QED BY <1>2, <1>3, Zenon

LEMMA repeatPrecedingCharacterHandled ==
  ASSUME NEW s, Sound(s), NEW p \in Nat
  PROVE  Handled(s, repeatPrecedingCharacter(s, p))
<1> DEFINE q == Plus(s.x, ParamOr1(p))
           m == WithWidth(s, s.y, q)
           n == [m EXCEPT !.x = q]
<1>1. s.x \in Columns /\ s.y \in Nat /\ (~s.wild => s.y < s.rows)
  BY SoundTypes, SoundCursor
<1>2. CASE ~HasLine(s, s.y)
  BY <1>1, <1>2, NoLineThrows, Zenon DEF repeatPrecedingCharacter
<1>3. CASE HasLine(s, s.y)
  <2>1. repeatPrecedingCharacter(s, p) = Edited(n)
    BY <1>3, Zenon DEF repeatPrecedingCharacter
  <2>2. q \in Columns
    BY <1>1, PlusColumn, ParamOr1Nat, Zenon
  <2>3. q \in Int
    BY <2>2, ColumnInt, Zenon
  <2> HIDE DEF q
  <2>4. Handled(s, m)
    BY <1>1, <1>3, <2>3, WithWidthHandled, Zenon
  <2> HIDE DEF m
  <2>5. Handled(m, n)
    BY <2>2, <2>4, PutX, Zenon DEF Handled
  <2> HIDE DEF n
  <2>6. Handled(n, Edited(n))
    BY <2>5, EditedHandled, Zenon DEF Handled
  <2> QED BY <2>1, <2>4, <2>5, <2>6, HandledTwice, Zenon
<1> QED BY <1>2, <1>3, Zenon

(***************************************************************************)
(* The cursor.                                                             *)
(***************************************************************************)
LEMMA ClampXColumn ==
  ASSUME NEW s, Sound(s), NEW x \in Columns
  PROVE  ClampX(s, x) \in Columns
<1>1. s.cols - 1 \in Nat
  BY SoundTypes
<1> QED BY <1>1, Zenon DEF ClampX, Columns

LEMMA ClampYRow ==
  ASSUME NEW s, Sound(s), NEW y \in Nat
  PROVE  ClampY(s, y) \in Nat /\ ClampY(s, y) < s.rows
  BY SoundTypes DEF ClampY

LEMMA OneLess ==
  ASSUME NEW p \in Nat
  PROVE  ParamOr1(p) - 1 \in Nat /\ ParamOr1(p) - 1 \in Columns
  BY DEF ParamOr1, Columns

\* the cursor's own sequences keep its row on the screen
LEMMA cursorUpHandled ==
  ASSUME NEW s, Sound(s), NEW p \in Nat
  PROVE  Handled(s, cursorUp(s, p))
<1> DEFINE y == Max2(0, s.y - ParamOr1(p))
<1>1. y \in Nat /\ (~s.wild => y < s.rows)
  BY SoundTypes, SoundCursor, ParamOr1Nat DEF Max2
<1>2. cursorUp(s, p) = [s EXCEPT !.y = y]
  BY Zenon DEF cursorUp
<1> HIDE DEF y
<1> QED BY <1>1, <1>2, PutY, Zenon

LEMMA cursorDownHandled ==
  ASSUME NEW s, Sound(s), NEW p \in Nat
  PROVE  Handled(s, cursorDown(s, p))
<1> DEFINE y == ClampY(s, s.y + ParamOr1(p))
<1>1. y \in Nat /\ (~s.wild => y < s.rows)
  <2> DEFINE z == s.y + ParamOr1(p)
  <2>1. z \in Nat
    BY SoundTypes, ParamOr1Nat
  <2> HIDE DEF z
  <2>2. ClampY(s, z) \in Nat /\ ClampY(s, z) < s.rows
    BY <2>1, ClampYRow, Zenon
  <2> QED BY <2>2, Zenon DEF z
<1>2. cursorDown(s, p) = [s EXCEPT !.y = y]
  BY Zenon DEF cursorDown
<1> HIDE DEF y
<1> QED BY <1>1, <1>2, PutY, Zenon

LEMMA linePosAbsoluteHandled ==
  ASSUME NEW s, Sound(s), NEW p \in Nat
  PROVE  Handled(s, linePosAbsolute(s, p))
<1> DEFINE y == ClampY(s, ParamOr1(p) - 1)
<1>1. y \in Nat /\ (~s.wild => y < s.rows)
  <2> DEFINE z == ParamOr1(p) - 1
  <2>1. z \in Nat
    BY OneLess
  <2> HIDE DEF z
  <2>2. ClampY(s, z) \in Nat /\ ClampY(s, z) < s.rows
    BY <2>1, ClampYRow, Zenon
  <2> QED BY <2>2, Zenon DEF z
<1>2. linePosAbsolute(s, p) = [s EXCEPT !.y = y]
  BY Zenon DEF linePosAbsolute
<1> HIDE DEF y
<1> QED BY <1>1, <1>2, PutY, Zenon

LEMMA cursorForwardHandled ==
  ASSUME NEW s, Sound(s), NEW p \in Nat
  PROVE  Handled(s, cursorForward(s, p))
<1> DEFINE x == ClampX(s, Plus(s.x, ParamOr1(p)))
<1>1. x \in Columns
  BY SoundTypes, ParamOr1Nat, PlusColumn, ClampXColumn, Zenon
<1>2. cursorForward(s, p) = [s EXCEPT !.x = x]
  BY Zenon DEF cursorForward
<1> HIDE DEF x
<1> QED BY <1>1, <1>2, PutX, Zenon

LEMMA cursorBackwardHandled ==
  ASSUME NEW s, Sound(s), NEW p \in Nat
  PROVE  Handled(s, cursorBackward(s, p))
<1> DEFINE x == IF s.x = NaN THEN NaN ELSE Max2(0, s.x - ParamOr1(p))
<1>1. x \in Columns
  BY SoundTypes, ParamOr1Nat DEF Max2, Columns, NaN
<1>2. cursorBackward(s, p) = [s EXCEPT !.x = x]
  BY Zenon DEF cursorBackward
<1> HIDE DEF x
<1> QED BY <1>1, <1>2, PutX, Zenon

LEMMA cursorCharAbsoluteHandled ==
  ASSUME NEW s, Sound(s), NEW p \in Nat
  PROVE  Handled(s, cursorCharAbsolute(s, p))
<1> DEFINE x == ParamOr1(p) - 1
<1>1. x \in Columns
  BY OneLess, Zenon
<1>2. cursorCharAbsolute(s, p) = [s EXCEPT !.x = x]
  BY Zenon DEF cursorCharAbsolute
<1> HIDE DEF x
<1> QED BY <1>1, <1>2, PutX, Zenon

LEMMA charPosAbsoluteHandled ==
  ASSUME NEW s, Sound(s), NEW p \in Nat
  PROVE  Handled(s, charPosAbsolute(s, p))
<1> DEFINE x == ClampX(s, ParamOr1(p) - 1)
<1>1. x \in Columns
  BY OneLess, ClampXColumn, Zenon
<1>2. charPosAbsolute(s, p) = [s EXCEPT !.x = x]
  BY Zenon DEF charPosAbsolute
<1> HIDE DEF x
<1> QED BY <1>1, <1>2, PutX, Zenon

LEMMA cursorNextLineHandled ==
  ASSUME NEW s, Sound(s), NEW p \in Nat
  PROVE  Handled(s, cursorNextLine(s, p))
<1> DEFINE m == cursorDown(s, p)
           z == 0
<1>1. cursorNextLine(s, p) = [m EXCEPT !.x = z] /\ Handled(s, m)
  BY cursorDownHandled, Zenon DEF cursorNextLine
<1>2. z \in Columns
  BY DEF Columns
<1> HIDE DEF m, z
<1>3. Handled(m, [m EXCEPT !.x = z])
  BY <1>1, <1>2, PutX, Zenon DEF Handled
<1> QED BY <1>1, <1>3, HandledTwice, Zenon

LEMMA cursorPrecedingLineHandled ==
  ASSUME NEW s, Sound(s), NEW p \in Nat
  PROVE  Handled(s, cursorPrecedingLine(s, p))
<1> DEFINE m == cursorUp(s, p)
           z == 0
<1>1. cursorPrecedingLine(s, p) = [m EXCEPT !.x = z] /\ Handled(s, m)
  BY cursorUpHandled, Zenon DEF cursorPrecedingLine
<1>2. z \in Columns
  BY DEF Columns
<1> HIDE DEF m, z
<1>3. Handled(m, [m EXCEPT !.x = z])
  BY <1>1, <1>2, PutX, Zenon DEF Handled
<1> QED BY <1>1, <1>3, HandledTwice, Zenon

\* the row first, then the column
LEMMA PutYX ==
  ASSUME NEW s, Sound(s), NEW x \in Columns, NEW y \in Nat, ~s.wild => y < s.rows
  PROVE  Handled(s, [s EXCEPT !.y = y, !.x = x])
<1>1. [s EXCEPT !.y = y, !.x = x] = [s EXCEPT !.x = x, !.y = y]
  BY Zenon DEF Sound, TermRecord
<1> QED BY <1>1, PutPlace, ZenonT(40)

LEMMA cursorPosHandled ==
  ASSUME NEW s, Sound(s), NEW p \in Nat, NEW q \in Nat
  PROVE  Handled(s, cursorPos(s, p, q))
<1> DEFINE z == ParamOr1(p) - 1
           y == ClampY(s, z)
           x == ClampX(s, ParamOr1(q) - 1)
<1>1. z \in Nat /\ x \in Columns
  BY OneLess, ClampXColumn, Zenon
<1>2. cursorPos(s, p, q) = [s EXCEPT !.y = y, !.x = x]
  BY Zenon DEF cursorPos
<1> HIDE DEF x, z
<1>3. y \in Nat /\ y < s.rows
  BY <1>1, ClampYRow, Zenon
<1> HIDE DEF y
<1>4. Handled(s, [s EXCEPT !.y = y, !.x = x])
  BY <1>1, <1>3, PutYX, Zenon
<1> QED BY <1>2, <1>4, Zenon

LEMMA HVPositionHandled ==
  ASSUME NEW s, Sound(s), NEW ps \in Seq(Nat), Len(ps) >= 1
  PROVE  Handled(s, HVPosition(s, ps))
<1> DEFINE p == ps[1]
           q == ps[2]
           z == ParamOr1(p) - 1
           y == ClampY(s, z)
           x == IF Len(ps) < 2 THEN NaN ELSE ClampX(s, ParamOr1(q) - 1)
<1>1. HVPosition(s, ps) = [s EXCEPT !.y = y, !.x = x]
  BY Zenon DEF HVPosition
<1>2. p \in Nat /\ (~(Len(ps) < 2) => q \in Nat)
  OBVIOUS
<1> HIDE DEF p, q
<1>3. z \in Nat /\ x \in Columns
  BY <1>2, OneLess, ClampXColumn, Zenon DEF Columns
<1> HIDE DEF z, x
<1>4. y \in Nat /\ y < s.rows
  BY <1>3, ClampYRow, Zenon
<1> HIDE DEF y
<1>5. Handled(s, [s EXCEPT !.y = y, !.x = x])
  BY <1>3, <1>4, PutYX, Zenon
<1> QED BY <1>1, <1>5, Zenon

LEMMA saveCursorHandled ==
  ASSUME NEW s, Sound(s)
  PROVE  Handled(s, saveCursor(s))
<1> DEFINE x == s.x
           y == s.y
<1>1. x \in Columns /\ y \in Nat /\ saveCursor(s) = [s EXCEPT !.savedX = x, !.savedY = y]
  BY SoundTypes, Zenon DEF saveCursor
<1> HIDE DEF x, y
<1>2. Handled(s, [s EXCEPT !.savedX = x, !.savedY = y])
  BY <1>1, PutSaved, Zenon
<1> QED BY <1>1, <1>2, Zenon

(***************************************************************************)
(* Tab stops: the nearest one on a side exists when there is one at all.   *)
(***************************************************************************)
LEMMA LeastOf ==
  ASSUME NEW S, S \subseteq Nat, S # {}
  PROVE  \E i \in S : \A j \in S : i <= j
<1>1. IsWellFoundedOn(OpToRel(<, Nat), Nat)
  BY NatLessThanWellFounded
<1>2. \E i \in S : \A j \in S : <<j, i>> \notin OpToRel(<, Nat)
  BY <1>1, WFMin
<1>3. PICK i \in S : \A j \in S : ~(j < i)
  BY <1>2 DEF OpToRel
<1> QED BY <1>3

LEMMA GreatestOf ==
  ASSUME NEW S, S \subseteq Nat, S # {}, NEW x \in Nat, \A i \in S : i <= x
  PROVE  \E i \in S : \A j \in S : j <= i
<1> DEFINE T == {k \in Nat : x - k \in S}
<1>1. T # {}
  <2>1. PICK i \in S : TRUE
    OBVIOUS
  <2>2. x - i \in T
    BY <2>1
  <2> QED BY <2>2
<1>2. PICK k \in T : \A m \in T : k <= m
  BY <1>1, LeastOf
<1>3. x - k \in S
  BY <1>2
<1>4. ASSUME NEW j \in S PROVE j <= x - k
  <2>1. x - j \in T
    BY <1>4
  <2>2. k <= x - j
    BY <1>2, <2>1
  <2> QED BY <1>2, <1>4, <2>2
<1> QED BY <1>3, <1>4

\* a tab stop before or after a column is a column again
LEMMA StopColumns ==
  ASSUME NEW tabs \in SUBSET Nat, NEW cols \in Nat \ {0}, NEW x \in Columns
  PROVE  /\ prevStop(tabs, cols, x) \in Columns /\ nextStop(tabs, cols, x) \in Columns
         /\ x # NaN => prevStop(tabs, cols, x) \in Nat
<1>1. CASE x = NaN
  BY <1>1, Zenon DEF prevStop, nextStop, Columns
<1>2. CASE x # NaN
  <2> DEFINE below == {i \in tabs : i < x}
             above == {i \in tabs : i > x}
             p == IF below = {} THEN 0 ELSE CHOOSE i \in below : \A j \in below : j <= i
             n == IF above = {} THEN cols ELSE CHOOSE i \in above : \A j \in above : i <= j
  <2>1. x \in Nat
    BY <1>2, ColumnInt, Zenon
  <2>2. prevStop(tabs, cols, x) = Min2(p, cols - 1) /\ nextStop(tabs, cols, x) = Min2(n, cols - 1)
    BY <1>2, Zenon DEF prevStop, nextStop
  <2>3. below \subseteq Nat /\ above \subseteq Nat
    BY Zenon
  <2>b. ASSUME NEW i \in below PROVE i <= x
    <3>1. i \in Nat /\ i < x
      BY Zenon
    <3> QED BY <2>1, <3>1
  <2> HIDE DEF below, above
  <2>4. p \in Nat
    <3>1. below # {} => \E i \in below : \A j \in below : j <= i
      BY <2>1, <2>3, <2>b, GreatestOf, Zenon
    <3> QED BY <2>3, <3>1
  <2>5. n \in Nat
    <3>1. above # {} => \E i \in above : \A j \in above : i <= j
      BY <2>3, LeastOf, Zenon
    <3> QED BY <2>3, <3>1
  <2> HIDE DEF p, n
  <2>6. Min2(p, cols - 1) \in Nat /\ Min2(n, cols - 1) \in Nat
    BY <2>4, <2>5 DEF Min2
  <2> QED BY <2>2, <2>6, Zenon DEF Columns
<1> QED BY <1>1, <1>2, Zenon

LEMMA tabForwardHandled ==
  ASSUME NEW s, Sound(s), NEW n \in Nat
  PROVE  Handled(s, tabForward(s, n))
<1> DEFINE one == [x \in Columns |-> nextStop(s.tabs, s.cols, x)]
           z == s.x
           v == Repeat(n, one, z)
<1>1. tabForward(s, n) = [s EXCEPT !.x = v]
  BY Zenon DEF tabForward
<1>2. z \in Columns
  BY SoundTypes, Zenon
<1>3. ASSUME NEW x \in Columns PROVE one[x] \in Columns
  <2>1. nextStop(s.tabs, s.cols, x) \in Columns
    <3> DEFINE a == s.tabs
               b == s.cols
    <3>1. a \in SUBSET Nat /\ b \in Nat \ {0}
      BY SoundTypes, Zenon
    <3> HIDE DEF a, b
    <3>2. nextStop(a, b, x) \in Columns
      BY <3>1, StopColumns, Zenon
    <3> QED BY <3>2, Zenon DEF a, b
  <2> QED BY <2>1, Zenon
<1> HIDE DEF one, z
<1>4. v \in Columns
  BY <1>2, <1>3, RepeatKeeps, Zenon
<1> HIDE DEF v
<1> QED BY <1>1, <1>4, PutX, Zenon

LEMMA tabBackwardHandled ==
  ASSUME NEW s, Sound(s), NEW n \in Nat
  PROVE  Handled(s, tabBackward(s, n))
<1> DEFINE one == [x \in Columns |-> prevStop(s.tabs, s.cols, x)]
           z == s.x
           v == Repeat(n, one, z)
<1>1. tabBackward(s, n) = [s EXCEPT !.x = v]
  BY Zenon DEF tabBackward
<1>2. z \in Columns
  BY SoundTypes, Zenon
<1>3. ASSUME NEW x \in Columns PROVE one[x] \in Columns
  <2>1. prevStop(s.tabs, s.cols, x) \in Columns
    <3> DEFINE a == s.tabs
               b == s.cols
    <3>1. a \in SUBSET Nat /\ b \in Nat \ {0}
      BY SoundTypes, Zenon
    <3> HIDE DEF a, b
    <3>2. prevStop(a, b, x) \in Columns
      BY <3>1, StopColumns, Zenon
    <3> QED BY <3>2, Zenon DEF a, b
  <2> QED BY <2>1, Zenon
<1> HIDE DEF one, z
<1>4. v \in Columns
  BY <1>2, <1>3, RepeatKeeps, Zenon
<1> HIDE DEF v
<1> QED BY <1>1, <1>4, PutX, Zenon

LEMMA tabSetHandled ==
  ASSUME NEW s, Sound(s)
  PROVE  Handled(s, tabSet(s))
<1> DEFINE v == s.tabs \cup {s.x}
<1>1. CASE s.x = NaN
  BY <1>1, HandledSelf, Zenon DEF tabSet
<1>2. CASE s.x # NaN
  <2>1. s.x \in Nat /\ s.tabs \in SUBSET Nat
    BY <1>2, SoundTypes, ColumnInt, Zenon
  <2>2. v \in SUBSET Nat
    BY <2>1, Zenon
  <2>3. tabSet(s) = [s EXCEPT !.tabs = v]
    BY <1>2, Zenon DEF tabSet
  <2> HIDE DEF v
  <2> QED BY <2>2, <2>3, PutTabs, Zenon
<1> QED BY <1>1, <1>2, Zenon

LEMMA tabClearHandled ==
  ASSUME NEW s, Sound(s), NEW p \in Nat
  PROVE  Handled(s, tabClear(s, p))
<1> DEFINE v == s.tabs \ {s.x}
           w == {}
<1>1. v \in SUBSET Nat /\ w \in SUBSET Nat
  <2>1. s.tabs \in SUBSET Nat
    BY SoundTypes, Zenon
  <2> QED BY <2>1, Zenon
<1>2. tabClear(s, p) = IF p <= 0 THEN [s EXCEPT !.tabs = v]
                       ELSE IF p = 3 THEN [s EXCEPT !.tabs = w] ELSE s
  BY Zenon DEF tabClear
<1> HIDE DEF v, w
<1>3. Handled(s, [s EXCEPT !.tabs = v]) /\ Handled(s, [s EXCEPT !.tabs = w]) /\ Handled(s, s)
  BY <1>1, PutTabs, HandledSelf, Zenon
<1> QED BY <1>2, <1>3, Zenon

(***************************************************************************)
(* Repainting: what it takes away from the rows to repaint and does to the *)
(* cursor's.                                                               *)
(***************************************************************************)
Repaints(s, n, a, b) ==
    ~s.wild =>
       /\ n.dirty = s.dirty \ (a..b) /\ n.edited = s.edited \ (a..b)
       /\ \A r \in n.shown : r \in n.early \/ (r \in s.shown /\ r \notin a..b)
       /\ \A r \in n.shown : r = s.y \/ (r \in s.shown /\ r \notin a..b)
       /\ \A r \in s.early : r \notin a..b => r \in n.early

Refreshed(s, n, a, b) ==
    /\ Sound(n) /\ Frame(s, n) /\ SameBuffer(s, n) /\ SameCursor(s, n)
    /\ n.from = s.from /\ n.to = s.to
    /\ Repaints(s, n, a, b)

\* every row of the view can be drawn
LEMMA AllDrawable ==
  ASSUME NEW s, Sound(s), ~s.wild, NEW a \in Nat, NEW b \in Nat, b < s.rows
  PROVE  /\ Min2(b, Len(s.lines) - 1) = b
         /\ \A r \in a..b : Drawable(s, r)
<1> DEFINE q == s.lines
           k == Len(q)
<1>1. /\ s.cols \in Nat /\ s.rows \in Nat /\ s.ybase \in Nat /\ s.ydisp \in Nat
      /\ s.ydisp <= s.ybase /\ k = s.ybase + s.rows
  BY SoundTypes, SoundLines
<1>2. q \in Seq(Wide(s.cols))
  BY SoundLines, Zenon
<1>3. \A i \in 1..k : q[i] \in Wide(s.cols)
  BY <1>2
<1> HIDE DEF q, k
<1>4. Min2(b, k - 1) = b
  BY <1>1 DEF Min2
<1>5. ASSUME NEW r \in a..b PROVE Drawable(s, r)
  <2> DEFINE i == r + s.ydisp + 1
  <2>1. r < s.rows /\ r + s.ydisp < k /\ i \in 1..k
    BY <1>1
  <2> HIDE DEF i
  <2>2. q[i] \in Wide(s.cols)
    BY <1>3, <2>1, Zenon
  <2>3. q[i] >= s.cols
    BY <2>2, Zenon DEF Wide
  <2> QED BY <2>1, <2>3, Zenon DEF Drawable, i, q, k
<1> QED BY <1>4, <1>5, Zenon DEF q, k

\* refresh paints the rows asked for, and the cursor if it is among them
LEMMA refreshRefreshed ==
  ASSUME NEW s, Sound(s), NEW a \in Nat, NEW b \in Nat, ~s.wild => b < s.rows
  PROVE  Refreshed(s, refresh(s, a, b), a, b)
<1> DEFINE rows == a..Min2(b, Len(s.lines) - 1)
           cursor == IF CursorDrawn(s) THEN {s.y} \cap rows ELSE {}
           d == s.dirty \ rows
           e == s.edited \ rows
           h == (s.shown \ rows) \cup cursor
           y == (s.early \ rows) \cup cursor
           n == [s EXCEPT !.dirty = d, !.edited = e, !.shown = h, !.early = y]
           m == refresh(s, a, b)
<1>0. s \in TermRecord
  BY DEF Sound
<1>1. m = IF \A r \in rows : Drawable(s, r) THEN n ELSE Throw(s)
  BY Zenon DEF refresh, Throw
<1>2. /\ s.dirty \subseteq Nat /\ s.edited \subseteq Nat /\ s.shown \subseteq Nat
      /\ s.early \subseteq Nat /\ s.y \in Nat
  BY <1>0, Zenon DEF TermRecord
<1>3. cursor \subseteq {s.y} /\ cursor \subseteq rows
  BY Zenon
<1>4. ~s.wild => rows = a..b /\ \A r \in rows : Drawable(s, r)
  <2> SUFFICES ASSUME ~s.wild PROVE rows = a..b /\ \A r \in rows : Drawable(s, r)
    BY Zenon
  <2>1. Min2(b, Len(s.lines) - 1) = b /\ \A r \in a..b : Drawable(s, r)
    BY AllDrawable, Zenon
  <2> QED BY <2>1, Zenon
<1> HIDE DEF cursor, rows
<1>5. d \in SUBSET Nat /\ e \in SUBSET Nat /\ h \in SUBSET Nat /\ y \in SUBSET Nat
  BY <1>2, <1>3, Zenon
<1>6. /\ \A r \in h : r \in y \/ (r \in s.shown /\ r \notin rows)
      /\ \A r \in h : r = s.y \/ (r \in s.shown /\ r \notin rows)
      /\ \A r \in s.early : r \notin rows => r \in y
      /\ d = s.dirty \ rows /\ e = s.edited \ rows
  BY <1>3, Zenon
<1> HIDE DEF d, e, h, y, m
<1>7. CASE m = n
  <2>1. m \in TermRecord
    BY <1>0, <1>5, <1>7, Zenon DEF TermRecord
  <2>2. /\ Frame(s, m) /\ SameBuffer(s, m) /\ SameCursor(s, m) /\ SameCharset(s, m)
        /\ m.thrown = s.thrown /\ m.from = s.from /\ m.to = s.to
        /\ m.dirty = d /\ m.edited = e /\ m.shown = h /\ m.early = y
    BY <1>0, <1>7, Zenon DEF TermRecord, Frame, SameBuffer, SameCursor, SameCharset
  <2> HIDE DEF n
  <2>3. Sound(m)
    BY <2>1, <2>2, SoundSame, Zenon
  <2>4. Repaints(s, m, a, b)
    BY <1>4, <1>6, <2>2, Zenon DEF Repaints
  <2> QED BY <2>2, <2>3, <2>4, Zenon DEF Refreshed, m
<1>8. CASE m # n
  <2>1. m = Throw(s) /\ s.wild
    BY <1>1, <1>4, <1>8, Zenon
  <2>2. Sound(m) /\ Frame(s, m)
    BY <2>1, ThrowHandled, Zenon DEF Handled
  <2>3. /\ SameBuffer(s, m) /\ SameCursor(s, m) /\ m.from = s.from /\ m.to = s.to
    BY <1>0, <2>1, Zenon DEF TermRecord, Throw, SameBuffer, SameCursor
  <2> QED BY <2>1, <2>2, <2>3, Zenon DEF Refreshed, Repaints, m
<1> QED BY <1>7, <1>8, Zenon

\* what was painted within a chunk needs no range any more
LEMMA RefreshedRanged ==
  ASSUME NEW s, NEW n, NEW a, NEW b, Refreshed(s, n, a, b), Ranged(s)
  PROVE  Ranged(n)
<1>1. Frame(s, n) /\ n.from = s.from /\ n.to = s.to /\ Repaints(s, n, a, b)
  BY Zenon DEF Refreshed
<1> SUFFICES ASSUME ~n.wild
             PROVE  /\ n.to < n.rows
                    /\ \A q \in n.dirty : q \in n.edited \/ (n.from <= q /\ q <= n.to)
                    /\ \A q \in n.shown : q \in n.early \/ (n.from <= q /\ q <= n.to)
  BY Zenon DEF Ranged
<1>2. /\ ~s.wild /\ n.rows = s.rows /\ s.to < s.rows
      /\ \A q \in s.dirty : q \in s.edited \/ (s.from <= q /\ q <= s.to)
      /\ \A q \in s.shown : q \in s.early \/ (s.from <= q /\ q <= s.to)
  BY <1>1, Zenon DEF Ranged, Frame
<1>3. /\ n.dirty = s.dirty \ (a..b) /\ n.edited = s.edited \ (a..b)
      /\ \A r \in n.shown : r \in n.early \/ (r \in s.shown /\ r \notin a..b)
      /\ \A r \in s.early : r \notin a..b => r \in n.early
  BY <1>1, <1>2, Zenon DEF Repaints
<1>4. n.to < n.rows
  BY <1>1, <1>2, Zenon
<1>5. ASSUME NEW q \in n.dirty PROVE q \in n.edited \/ (n.from <= q /\ q <= n.to)
  BY <1>1, <1>2, <1>3, Zenon
<1>6. ASSUME NEW q \in n.shown PROVE q \in n.early \/ (n.from <= q /\ q <= n.to)
  BY <1>1, <1>2, <1>3, Zenon
<1> QED BY <1>4, <1>5, <1>6, Zenon

LEMMA RefreshedHandled ==
  ASSUME NEW s, NEW n, NEW a, NEW b, Refreshed(s, n, a, b)
  PROVE  Handled(s, n)
  BY RefreshedRanged, Zenon DEF Refreshed, Handled

\* the whole screen
LEMMA AllRepainted ==
  ASSUME NEW s, Sound(s)
  PROVE  Refreshed(s, refresh(Changed(s, 0, s.rows - 1), 0, s.rows - 1), 0, s.rows - 1)
<1> DEFINE a == 0
           b == s.rows - 1
           d == s.dirty \cup (a..b)
           m == [s EXCEPT !.dirty = d]
           n == refresh(m, a, b)
<1>0. s \in TermRecord
  BY DEF Sound
<1>1. a \in Nat /\ b \in Nat /\ b < s.rows /\ Min2(a, b)..Max2(a, b) = a..b
  BY SoundTypes DEF Min2, Max2
<1>2. Changed(s, 0, s.rows - 1) = m
  BY <1>1, Zenon DEF Changed
<1>3. d \in SUBSET Nat /\ d \ (a..b) = s.dirty \ (a..b)
  <2>1. s.dirty \subseteq Nat
    BY <1>0, Zenon DEF TermRecord
  <2> QED BY <2>1
<1> HIDE DEF d
<1>4. /\ Frame(s, m) /\ SameBuffer(s, m) /\ SameCursor(s, m) /\ SameCharset(s, m)
      /\ m.thrown = s.thrown /\ m.from = s.from /\ m.to = s.to
      /\ m.dirty = d /\ m.edited = s.edited /\ m.shown = s.shown /\ m.early = s.early
      /\ m \in TermRecord
  BY <1>0, <1>3, Zenon DEF TermRecord, Frame, SameBuffer, SameCursor, SameCharset
<1> HIDE DEF m, a
<1>5. Sound(m)
  BY <1>4, SoundSame, Zenon
<1>6. b < m.rows
  BY <1>1, <1>4, Zenon DEF Frame
<1> HIDE DEF b
<1>7. Refreshed(m, n, a, b)
  BY <1>1, <1>5, <1>6, refreshRefreshed, Zenon
<1> HIDE DEF n
<1>8. Repaints(s, n, a, b)
  BY <1>3, <1>4, <1>7, Zenon DEF Refreshed, Repaints, Frame, SameCursor
<1>9. Refreshed(s, n, a, b)
  BY <1>4, <1>7, <1>8, Zenon DEF Refreshed, Frame, SameBuffer, SameCursor
<1> QED BY <1>2, <1>9, Zenon DEF n, a, b

\* showCursor repaints the cursor's row, or does nothing
LEMMA showCursorRefreshed ==
  ASSUME NEW s, Sound(s)
  PROVE  showCursor(s) = s \/ Refreshed(s, showCursor(s), s.y, s.y)
<1> DEFINE b == TRUE
           m == [s EXCEPT !.cursorState = b]
           y == s.y
           n == refresh(m, y, y)
<1>1. CASE s.cursorState
  BY <1>1, Zenon DEF showCursor
<1>2. CASE ~s.cursorState
  <2>1. showCursor(s) = n
    BY <1>2, Zenon DEF showCursor
  <2>2. y \in Nat /\ (~s.wild => y < s.rows)
    BY SoundTypes, SoundCursor, Zenon
  <2>b. b \in BOOLEAN /\ s \in TermRecord
    BY DEF Sound
  <2> HIDE DEF b, y
  <2>3. Handled(s, m)
    BY <2>b, PutShowing, Zenon
  <2>4. /\ Frame(s, m) /\ SameBuffer(s, m) /\ SameCursor(s, m) /\ SamePaint(s, m)
    BY <2>b, Zenon DEF TermRecord, Frame, SameBuffer, SameCursor, SamePaint
  <2> HIDE DEF m
  <2>5. Refreshed(m, n, y, y)
    BY <2>2, <2>3, refreshRefreshed, Zenon DEF Handled, Frame
  <2> HIDE DEF n
  <2>6. Repaints(s, n, y, y)
    BY <2>4, <2>5, Zenon DEF Refreshed, Repaints, Frame, SameCursor, SamePaint
  <2>7. Refreshed(s, n, y, y)
    BY <2>4, <2>5, <2>6, Zenon DEF Refreshed, Frame, SameBuffer, SameCursor, SamePaint
  <2> QED BY <2>1, <2>7, Zenon DEF y
<1> QED BY <1>1, <1>2, Zenon

LEMMA showCursorHandled ==
  ASSUME NEW s, Sound(s)
  PROVE  Handled(s, showCursor(s))
  BY showCursorRefreshed, RefreshedHandled, HandledSelf, Zenon

(***************************************************************************)
(* Handlers that may drop the main screen put aside, or the sequence's     *)
(* prefix, but never replace that screen.                                  *)
(***************************************************************************)
Moved(s, n) ==
    /\ Sound(n) /\ n.cols = s.cols /\ n.rows = s.rows /\ n.wild = s.wild
    /\ Ranged(s) => Ranged(n)

LEMMA HandledMoved ==
  ASSUME NEW s, NEW n, Handled(s, n)
  PROVE  Moved(s, n) /\ n.normal = s.normal
  BY Zenon DEF Handled, Moved, Frame

LEMMA MovedTwice ==
  ASSUME NEW s, NEW m, NEW n, Moved(s, m), Moved(m, n)
  PROVE  Moved(s, n)
  BY Zenon DEF Moved

LEMMA MovedPaint ==
  ASSUME NEW s, NEW n, Sound(n), n.cols = s.cols, n.rows = s.rows, n.wild = s.wild, SamePaint(s, n)
  PROVE  Moved(s, n)
  BY Zenon DEF Moved, SamePaint, Ranged

\* before the constructor has designated the character sets
RawRecord ==
    [cols : Nat \ {0}, rows : Nat \ {0}, x : Columns, y : Nat, ybase : Nat, ydisp : Nat,
     lines : Seq(Nat), scrollTop : Nat, scrollBottom : Nat, tabs : SUBSET Nat,
     cursorState : BOOLEAN, modes : SUBSET Flags, normal : Seq(Aside),
     prefix : {"", "?"}, charset : Charsets, glevel : 0..3,
     charsets : {<<>>} \cup [0..3 -> Charsets],
     savedX : Columns, savedY : Nat, savedCols : Nat, from : Nat, to : Nat,
     dirty : SUBSET Nat, edited : SUBSET Nat, shown : SUBSET Nat, early : SUBSET Nat,
     wild : BOOLEAN, thrown : BOOLEAN]

LEMMA RawTerm ==
  TermRecord \subseteq RawRecord
  BY Zenon DEF TermRecord, RawRecord

LEMMA StopsNat ==
  ASSUME NEW a \in Nat, NEW c \in Int
  PROVE  Stops(a, c) \in SUBSET Nat
  BY DEF Stops

LEMMA ConstantLines ==
  ASSUME NEW k \in Nat, NEW c \in Nat
  PROVE  /\ [i \in 1..k |-> c] \in Seq(Wide(c)) /\ [i \in 1..k |-> c] \in Seq(Nat)
         /\ Len([i \in 1..k |-> c]) = k
<1>1. c \in Wide(c)
  BY WideEnough
<1> QED BY <1>1

\* the constructor's assignments make a sound terminal of any size
LEMMA Constructs ==
  ASSUME NEW s \in RawRecord, ~s.wild => ~s.thrown
  PROVE  /\ Sound(Constructed(s))
         /\ Constructed(s).cols = s.cols /\ Constructed(s).rows = s.rows
         /\ Constructed(s).wild = s.wild /\ SamePaint(s, Constructed(s))
         /\ Constructed(s).normal = <<>>
<1> DEFINE z == 0
           b == s.rows - 1
           o == FALSE
           ms == s.modes \ {"cursorHidden", "applicationKeypad", "applicationCursor",
                            "originMode", "insertMode", "wraparoundMode"}
           e == <<>>
           cs == "none"
           cg == [g \in 0..3 |-> cs]
           p == ""
           l == [i \in 1..s.rows |-> s.cols]
           ts == Stops(0, s.cols)
           n == [s EXCEPT !.ybase = z, !.ydisp = z, !.x = z, !.y = z, !.cursorState = o,
                          !.scrollTop = z, !.scrollBottom = b, !.modes = ms, !.normal = e,
                          !.glevel = z, !.charset = cs, !.charsets = cg, !.prefix = p,
                          !.lines = l, !.tabs = ts]
<1>1. s.cols \in Nat \ {0} /\ s.rows \in Nat \ {0} /\ s.modes \in SUBSET Flags
  BY Zenon DEF RawRecord
<1>2. Constructed(s) = n
  BY Zenon DEF Constructed
<1>3. /\ z \in Nat /\ z \in 0..3 /\ z \in Columns /\ b \in Nat /\ b < s.rows /\ z < s.rows
      /\ o \in BOOLEAN /\ p \in {"", "?"} /\ z < Scrollback /\ z <= z /\ s.rows = z + s.rows
  BY <1>1, ScreenAssumption DEF Columns
<1>4. ms \in SUBSET Flags
  BY <1>1, Zenon
<1>5. cs \in Charsets /\ cg \in [0..3 -> Charsets] /\ cg[z] = cs
  BY DEF Charsets
<1>6. e \in Seq(Aside)
  BY EmptySeq, Zenon
<1>7. l \in Seq(Wide(s.cols)) /\ l \in Seq(Nat) /\ Len(l) = s.rows
  <2> DEFINE k == s.rows
             c == s.cols
  <2>1. k \in Nat /\ c \in Nat
    BY <1>1
  <2> HIDE DEF k, c
  <2>2. /\ [i \in 1..k |-> c] \in Seq(Wide(c)) /\ [i \in 1..k |-> c] \in Seq(Nat)
        /\ Len([i \in 1..k |-> c]) = k
    BY <2>1, ConstantLines, Zenon
  <2> QED BY <2>2, Zenon DEF k, c
<1>8. ts \in SUBSET Nat
  BY <1>1, StopsNat
<1>9. Len(e) <= 1
  OBVIOUS
<1> HIDE DEF z, b, o, ms, cs, cg, p, l, ts
<1>10. e = <<>>
  OBVIOUS
<1> HIDE DEF e
<1>11. n \in TermRecord
  <2> DEFINE m == [s EXCEPT !.charsets = cg, !.lines = l, !.tabs = ts, !.modes = ms]
  <2>1. m \in TermRecord
    BY <1>4, <1>5, <1>7, <1>8, ZenonT(60) DEF RawRecord, TermRecord
  <2>2. n = [m EXCEPT !.ybase = z, !.ydisp = z, !.x = z, !.y = z, !.cursorState = o,
                      !.scrollTop = z, !.scrollBottom = b, !.normal = e,
                      !.glevel = z, !.charset = cs, !.prefix = p]
    BY ZenonT(60) DEF RawRecord
  <2> HIDE DEF m, n
  <2> QED BY <1>3, <1>5, <1>6, <2>1, <2>2, ZenonT(100) DEF TermRecord
<1>12. /\ n.cols = s.cols /\ n.rows = s.rows /\ n.wild = s.wild /\ n.thrown = s.thrown
       /\ n.lines = l /\ n.ybase = z /\ n.ydisp = z /\ n.y = z /\ n.scrollTop = z
       /\ n.scrollBottom = b /\ n.charset = cs /\ n.charsets = cg /\ n.glevel = z
       /\ n.normal = e /\ SamePaint(s, n)
  BY Zenon DEF RawRecord, SamePaint
<1> HIDE DEF n
<1>13. BufferHolds(n.lines, n.ybase, n.ydisp, n.cols, n.rows, n.wild)
  BY <1>3, <1>7, <1>12, Zenon DEF BufferHolds
<1>14. CursorHolds(n.y, n.scrollTop, n.scrollBottom, n.rows, n.wild)
  BY <1>3, <1>12, Zenon DEF CursorHolds
<1>15. AsideHolds(n.normal, n.cols, n.rows, n.wild)
  BY <1>10, <1>12, Zenon DEF AsideHolds
<1>16. Sound(n)
  BY <1>5, <1>9, <1>11, <1>12, <1>13, <1>14, <1>15, Zenon DEF Sound
<1> QED BY <1>2, <1>10, <1>12, <1>16, Zenon

\* a full reset
LEMMA resetMoved ==
  ASSUME NEW s, Sound(s)
  PROVE  Moved(s, reset(s)) /\ reset(s).normal = <<>>
<1> DEFINE c == Constructed(s)
           n == refresh(Changed(c, 0, c.rows - 1), 0, c.rows - 1)
<1>1. s \in RawRecord /\ (~s.wild => ~s.thrown)
  BY RawTerm, Zenon DEF Sound
<1>2. /\ Sound(c) /\ c.cols = s.cols /\ c.rows = s.rows /\ c.wild = s.wild
      /\ SamePaint(s, c) /\ c.normal = <<>>
  BY <1>1, Constructs, Zenon
<1>3. reset(s) = n
  BY Zenon DEF reset
<1> HIDE DEF c
<1>4. Moved(s, c)
  BY <1>2, MovedPaint, Zenon
<1>5. Handled(c, n)
  BY <1>2, AllRepainted, RefreshedHandled, Zenon
<1> HIDE DEF n
<1>6. Moved(c, n) /\ n.normal = c.normal
  BY <1>5, HandledMoved, Zenon
<1> QED BY <1>2, <1>3, <1>4, <1>6, MovedTwice, Zenon

(***************************************************************************)
(* Size.                                                                   *)
(***************************************************************************)
\* every line is cut or filled to the new width
LEMMA FitColsSeq ==
  ASSUME NEW s, Sound(s), NEW x \in Nat \ {0}
  PROVE  FitCols(s, x) \in Seq(Wide(x)) /\ Len(FitCols(s, x)) = Len(s.lines)
<1> DEFINE q == s.lines
           k == Len(q)
           W == Wide(x)
           e == [i \in DOMAIN q |-> IF s.cols < x THEN Max2(q[i], x)
                                    ELSE IF s.cols > x THEN Min2(q[i], x) ELSE q[i]]
<1>0. FitCols(s, x) = e
  BY Zenon DEF FitCols
<1>1. q \in Seq(Wide(s.cols)) /\ k \in Nat /\ DOMAIN q = 1..k
  BY SoundLines
<1>2. ASSUME NEW i \in 1..k PROVE e[i] \in W
  <2>1. q[i] \in Wide(s.cols)
    BY <1>1
  <2> DEFINE v == q[i]
  <2> HIDE DEF v, q
  <2>2. v \in Nat /\ v >= s.cols /\ s.cols \in Nat
    BY <2>1, SoundTypes DEF Wide, v
  <2>3. (IF s.cols < x THEN Max2(v, x) ELSE IF s.cols > x THEN Min2(v, x) ELSE v) \in W
    BY <2>2 DEF Wide, Max2, Min2
  <2>4. e[i] = IF s.cols < x THEN Max2(v, x) ELSE IF s.cols > x THEN Min2(v, x) ELSE v
    BY <1>1, Zenon DEF v
  <2> HIDE DEF e, W
  <2> QED BY <2>3, <2>4, Zenon
<1>3. e = [i \in 1..k |-> e[i]]
  BY <1>1, Zenon
<1> HIDE DEF e, W, q, k
<1>4. e \in [1..k -> W]
  BY <1>2, <1>3, Zenon
<1>5. e \in Seq(W) /\ Len(e) = k
  BY <1>1, <1>4
<1> QED BY <1>0, <1>5, Zenon DEF W, k, q

\* the lines taken away and added when r rows become y, of k lines of which yb are scrollback
Added(r, y, yb, k) == IF r < y THEN Max2(0, Min2(y - r, y + yb - k)) ELSE 0
Removed(r, y, yb, k) == IF r > y THEN Max2(0, Min2(r - y, k - (y + yb))) ELSE 0

LEMMA RowArithmetic ==
  ASSUME NEW r \in Nat, NEW y \in Nat, NEW yb \in Nat, NEW k \in Nat
  PROVE  /\ Added(r, y, yb, k) \in Nat /\ Removed(r, y, yb, k) \in 0..k
         /\ k = yb + r => k - Removed(r, y, yb, k) + Added(r, y, yb, k) = yb + y
<1>1. CASE r < y
  <2>1. Removed(r, y, yb, k) = 0 /\ Added(r, y, yb, k) = Max2(0, Min2(y - r, y + yb - k))
    BY <1>1 DEF Added, Removed
  <2>2. Max2(0, Min2(y - r, y + yb - k)) \in Nat
    BY DEF Max2, Min2
  <2>3. k = yb + r => Max2(0, Min2(y - r, y + yb - k)) = y - r
    BY <1>1 DEF Max2, Min2
  <2> QED BY <2>1, <2>2, <2>3
<1>2. CASE r > y
  <2>1. Added(r, y, yb, k) = 0 /\ Removed(r, y, yb, k) = Max2(0, Min2(r - y, k - (y + yb)))
    BY <1>2 DEF Added, Removed
  <2>2. Max2(0, Min2(r - y, k - (y + yb))) \in 0..k
    BY DEF Max2, Min2
  <2>3. k = yb + r => Max2(0, Min2(r - y, k - (y + yb))) = r - y
    BY <1>2 DEF Max2, Min2
  <2> QED BY <2>1, <2>2, <2>3
<1>3. CASE r = y
  BY <1>3 DEF Added, Removed
<1> QED BY <1>1, <1>2, <1>3

\* lines are added or taken away at the bottom, to fit the new height
LEMMA FitRowsSeq ==
  ASSUME NEW s, Sound(s), NEW x \in Nat \ {0}, NEW y \in Nat \ {0},
         NEW l \in Seq(Wide(x)), Len(l) = Len(s.lines)
  PROVE  /\ FitRows(s, l, x, y) \in Seq(Wide(x))
         /\ ~s.wild => Len(FitRows(s, l, x, y)) = s.ybase + y
<1> DEFINE W == Wide(x)
           k == Len(l)
           more == Added(s.rows, y, s.ybase, k)
           less == Removed(s.rows, y, s.ybase, k)
           a == SubSeq(l, 1, k - less)
           b == [i \in 1..more |-> x]
<1>0. FitRows(s, l, x, y) = a \o b
  BY Zenon DEF FitRows, Added, Removed
<1>1. k \in Nat /\ s.rows \in Nat /\ s.ybase \in Nat /\ (~s.wild => k = s.ybase + s.rows)
  BY SoundTypes, SoundLines
<1>2. \A i \in 1..k : l[i] \in W
  OBVIOUS
<1> HIDE DEF k
<1>3. more \in Nat /\ less \in 0..k
  BY <1>1, RowArithmetic
<1>4. ~s.wild => k - less + more = s.ybase + y
  <2> SUFFICES ASSUME ~s.wild PROVE k - less + more = s.ybase + y
    OBVIOUS
  <2> DEFINE r == s.rows
             yb == s.ybase
  <2>1. r \in Nat /\ yb \in Nat /\ k = yb + r
    BY <1>1
  <2> HIDE DEF r, yb
  <2>2. k - Removed(r, y, yb, k) + Added(r, y, yb, k) = yb + y
    BY <1>1, <2>1, RowArithmetic
  <2> QED BY <2>2, Zenon DEF r, yb
<1> HIDE DEF more, less
<1> DEFINE j == k - less
<1>5. j \in Nat /\ j <= k
  BY <1>1, <1>3
<1>6. a = SubSeq(l, 1, j)
  OBVIOUS
<1> HIDE DEF j, a, W
<1>7. a \in Seq(W) /\ Len(a) = j
  <2>1. \A i \in 1..j : l[i] \in W
    BY <1>1, <1>2, <1>5
  <2>2. SubSeq(l, 1, j) \in Seq(W) /\ Len(SubSeq(l, 1, j)) = IF 1 <= j THEN j - 1 + 1 ELSE 0
    BY <1>5, <2>1, SubSeqProperties
  <2>3. (IF 1 <= j THEN j - 1 + 1 ELSE 0) = j
    BY <1>5
  <2> QED BY <1>6, <2>2, <2>3, Zenon
<1>8. b \in Seq(W) /\ Len(b) = more
  <2>1. x \in Nat
    OBVIOUS
  <2> QED BY <1>3, <2>1, ConstantLines, Zenon DEF W
<1> HIDE DEF b
<1>9. a \o b \in Seq(W) /\ Len(a \o b) = j + more
  BY <1>7, <1>8, ConcatSeq, Zenon
<1>10. ~s.wild => j + more = s.ybase + y
  BY <1>4, Zenon DEF j
<1> QED BY <1>0, <1>9, <1>10, Zenon DEF W

LEMMA setupStopsNat ==
  ASSUME NEW tabs \in SUBSET Nat, NEW cols \in Nat \ {0}
  PROVE  setupStops(tabs, cols, cols) \in SUBSET Nat
<1> DEFINE f == IF cols \in tabs THEN cols ELSE prevStop(tabs, cols, cols)
<1>1. cols \in Columns /\ cols # NaN /\ cols \in Nat /\ cols \in Int
  BY DEF Columns, NaN
<1>2. f \in Nat
  BY <1>1, StopColumns, Zenon
<1>3. setupStops(tabs, cols, cols) = tabs \cup Stops(f, cols)
  BY Zenon DEF setupStops
<1> HIDE DEF f
<1>4. Stops(f, cols) \in SUBSET Nat
  BY <1>1, <1>2, StopsNat, Zenon
<1> QED BY <1>3, <1>4, Zenon

\* nothing left to repaint, and no cursor but where the handler drew it
Fresh(n) ==
    ~n.wild => n.dirty = {} /\ \A r \in n.shown : r = n.y /\ r \in n.early

\* the whole of resize but for its repaint
LEMMA ReshapedSound ==
  ASSUME NEW s, Sound(s), NEW x \in Nat \ {0}, NEW y \in Nat \ {0}
  PROVE  LET n == [Reshaped(s, x, y) EXCEPT !.normal = <<>>]
         IN /\ Sound(n) /\ n.normal = <<>> /\ n.prefix = s.prefix /\ n.to = s.to
            /\ n.rows = y /\ n.cols = x /\ n.wild = s.wild
            /\ (\A r \in n.dirty : r \in 0..y - 1)
            /\ (\A r \in n.shown : r \in 0..y - 1)
<1> DEFINE l == FitRows(s, FitCols(s, x), x, y)
           ts == setupStops(s.tabs, s.cols, s.cols)
           cy == IF s.y >= y THEN y - 1 ELSE s.y
           cx == IF s.x >= x THEN x - 1 ELSE s.x
           z == 0
           b == y - 1
           d == {r \in s.dirty : r < y}
           e == {r \in s.edited : r < y}
           h == {r \in s.shown : r < y}
           no == <<>>
           m == [s EXCEPT !.lines = l, !.tabs = ts, !.cols = x, !.rows = y, !.y = cy, !.x = cx,
                          !.scrollTop = z, !.scrollBottom = b, !.dirty = d, !.edited = e,
                          !.shown = h]
           n == [m EXCEPT !.normal = no]
<1>0. s \in TermRecord /\ Reshaped(s, x, y) = m
  BY Zenon DEF Sound, Reshaped
<1>1. /\ s.cols \in Nat \ {0} /\ s.x \in Columns /\ s.y \in Nat /\ s.ybase \in Nat
      /\ s.ydisp <= s.ybase /\ s.ybase < Scrollback /\ s.tabs \in SUBSET Nat
  BY SoundTypes, SoundLines, Zenon
<1>2. l \in Seq(Wide(x)) /\ (~s.wild => Len(l) = s.ybase + y)
  <2> DEFINE f == FitCols(s, x)
  <2>1. f \in Seq(Wide(x)) /\ Len(f) = Len(s.lines)
    BY FitColsSeq, Zenon
  <2> HIDE DEF f
  <2>2. FitRows(s, f, x, y) \in Seq(Wide(x)) /\ (~s.wild => Len(FitRows(s, f, x, y)) = s.ybase + y)
    BY <2>1, FitRowsSeq, Zenon
  <2> QED BY <2>2, Zenon DEF f
<1>3. l \in Seq(Nat)
  <2>1. Wide(x) \subseteq Nat
    BY Zenon DEF Wide
  <2> HIDE DEF l
  <2> QED BY <1>2, <2>1, SeqMonotonic, Zenon
<1>4. ts \in SUBSET Nat
  <2> DEFINE a == s.tabs
             c == s.cols
  <2> HIDE DEF a, c
  <2>1. a \in SUBSET Nat /\ c \in Nat \ {0}
    BY <1>1, Zenon DEF a, c
  <2>2. setupStops(a, c, c) \in SUBSET Nat
    BY <2>1, setupStopsNat, Zenon
  <2> QED BY <2>2, Zenon DEF a, c
<1>5. /\ cy \in Nat /\ cy < y /\ cx \in Columns /\ z \in Nat /\ z < y /\ b \in Nat /\ b < y
  BY <1>1 DEF Columns, NaN
<1>6. /\ d \in SUBSET Nat /\ e \in SUBSET Nat /\ h \in SUBSET Nat
      /\ (\A r \in d : r \in 0..y - 1) /\ (\A r \in h : r \in 0..y - 1)
  <2>1. s.dirty \subseteq Nat /\ s.edited \subseteq Nat /\ s.shown \subseteq Nat
    BY <1>0, Zenon DEF TermRecord
  <2>2. d \in SUBSET Nat /\ e \in SUBSET Nat /\ h \in SUBSET Nat
    BY <2>1, Zenon
  <2>3. ASSUME NEW r \in Nat, r < y PROVE r \in 0..y - 1
    BY <2>3
  <2>4. \A r \in d : r \in Nat /\ r < y
    BY <2>1, Zenon
  <2>5. \A r \in h : r \in Nat /\ r < y
    BY <2>1, Zenon
  <2> QED BY <2>2, <2>3, <2>4, <2>5, Zenon
<1>7. no \in Seq(Aside) /\ no = <<>> /\ Len(no) <= 1
  <2>1. Len(no) <= 1
    OBVIOUS
  <2> QED BY <2>1, EmptySeq, Zenon
<1> HIDE DEF l, ts, cy, cx, z, b, d, e, h, no
<1>8. m \in TermRecord
  BY <1>0, <1>3, <1>4, <1>5, <1>6, ZenonT(60) DEF TermRecord
<1>9. /\ m.cols = x /\ m.rows = y /\ m.wild = s.wild /\ m.prefix = s.prefix /\ m.to = s.to
      /\ m.lines = l /\ m.ybase = s.ybase /\ m.ydisp = s.ydisp /\ m.y = cy
      /\ m.scrollTop = z /\ m.scrollBottom = b /\ SameCharset(s, m) /\ m.thrown = s.thrown
      /\ m.dirty = d /\ m.shown = h
  BY <1>0, ZenonT(60) DEF TermRecord, SameCharset
<1> HIDE DEF m
<1>10. n \in TermRecord
  BY <1>7, <1>8, Zenon DEF TermRecord
<1>11. /\ n.cols = m.cols /\ n.rows = m.rows /\ n.wild = m.wild /\ n.prefix = m.prefix
       /\ n.to = m.to /\ SameBuffer(m, n) /\ SameCursor(m, n) /\ SameCharset(m, n)
       /\ n.thrown = m.thrown /\ n.dirty = m.dirty /\ n.shown = m.shown /\ n.normal = no
  BY <1>8, ZenonT(60) DEF TermRecord, SameBuffer, SameCursor, SameCharset
<1> HIDE DEF n
<1>12. BufferHolds(n.lines, n.ybase, n.ydisp, n.cols, n.rows, n.wild)
  BY <1>1, <1>2, <1>9, <1>11, Zenon DEF BufferHolds, SameBuffer
<1>13. CursorHolds(n.y, n.scrollTop, n.scrollBottom, n.rows, n.wild)
  BY <1>5, <1>9, <1>11, Zenon DEF CursorHolds, SameCursor
<1>14. AsideHolds(n.normal, n.cols, n.rows, n.wild)
  BY <1>7, <1>11, Zenon DEF AsideHolds
<1>15. n.charset = n.charsets[n.glevel] /\ (~n.wild => ~n.thrown)
  BY <1>9, <1>11, Zenon DEF Sound, SameCharset
<1>16. Sound(n)
  BY <1>7, <1>10, <1>11, <1>12, <1>13, <1>14, <1>15, Zenon DEF Sound
<1>17. n = [Reshaped(s, x, y) EXCEPT !.normal = <<>>]
  BY <1>0, <1>7, Zenon DEF n
<1>18. /\ Sound(n) /\ n.normal = <<>> /\ n.prefix = s.prefix /\ n.to = s.to
       /\ n.rows = y /\ n.cols = x /\ n.wild = s.wild
       /\ (\A r \in n.dirty : r \in 0..y - 1)
       /\ (\A r \in n.shown : r \in 0..y - 1)
  BY <1>6, <1>7, <1>9, <1>11, <1>16, Zenon
<1> QED BY <1>17, <1>18, Zenon

\* resize leaves nothing to repaint
LEMMA resizeSound ==
  ASSUME NEW s, Sound(s), NEW x0 \in Nat, NEW y0 \in Nat
  PROVE  LET n == resize(s, x0, y0)
         IN /\ Sound(n) /\ n.normal = <<>> /\ n.prefix = s.prefix /\ n.to = s.to
            /\ n.rows = Max2(1, y0) /\ n.wild = s.wild
            /\ Fresh(n)
<1> DEFINE x == Max2(1, x0)
           y == Max2(1, y0)
           m == [Reshaped(s, x, y) EXCEPT !.normal = <<>>]
           n == refresh(Changed(m, 0, m.rows - 1), 0, m.rows - 1)
<1>1. x \in Nat \ {0} /\ y \in Nat \ {0}
  BY DEF Max2
<1> HIDE DEF x, y
<1>2. /\ Sound(m) /\ m.normal = <<>> /\ m.prefix = s.prefix /\ m.to = s.to
      /\ m.rows = y /\ m.cols = x /\ m.wild = s.wild
      /\ (\A r \in m.dirty : r \in 0..y - 1)
      /\ (\A r \in m.shown : r \in 0..y - 1)
  BY <1>1, ReshapedSound, Zenon
<1>3. resize(s, x0, y0) = refresh(Changed(m, 0, y - 1), 0, y - 1)
  BY Zenon DEF resize, x, y
<1> HIDE DEF m
<1>4. resize(s, x0, y0) = n
  BY <1>2, <1>3, Zenon
<1>5. Refreshed(m, n, 0, m.rows - 1)
  BY <1>2, AllRepainted, Zenon
<1> HIDE DEF n
<1>6. Sound(n) /\ n.normal = <<>> /\ n.prefix = s.prefix /\ n.to = s.to
      /\ n.rows = y /\ n.wild = s.wild /\ n.y = m.y /\ Repaints(m, n, 0, m.rows - 1)
  BY <1>2, <1>5, Zenon DEF Refreshed, Frame, SameCursor
<1>7. Repaints(m, n, 0, y - 1)
  BY <1>2, <1>6, Zenon
<1> DEFINE R == 0..y - 1
<1>8. Repaints(m, n, 0, y - 1) = (~m.wild =>
         /\ n.dirty = m.dirty \ R /\ n.edited = m.edited \ R
         /\ \A r \in n.shown : r \in n.early \/ (r \in m.shown /\ r \notin R)
         /\ \A r \in n.shown : r = m.y \/ (r \in m.shown /\ r \notin R)
         /\ \A r \in m.early : r \notin R => r \in n.early)
  BY Zenon DEF Repaints
<1> HIDE DEF R
<1>9. (\A r \in m.dirty : r \in R) /\ (\A r \in m.shown : r \in R)
  BY <1>2, Zenon DEF R
<1>10. ASSUME ~n.wild PROVE n.dirty = {} /\ \A r \in n.shown : r = n.y /\ r \in n.early
  <2>1. ~m.wild
    BY <1>2, <1>6, <1>10, Zenon
  <2>2. n.dirty = m.dirty \ R
    BY <1>7, <1>8, <2>1, Zenon
  <2>3. n.dirty = {}
    BY <1>9, <2>2, Zenon
  <2> QED BY <1>6, <1>7, <1>8, <1>9, <2>1, <2>3, Zenon
<1>11. Fresh(n)
  BY <1>10, Zenon DEF Fresh
<1> QED BY <1>4, <1>6, <1>11, Zenon DEF y

(***************************************************************************)
(* The alternate screen.                                                   *)
(***************************************************************************)
\* the terminal with another main screen put aside
LEMMA PutNormal ==
  ASSUME NEW s, Sound(s), NEW v \in Seq(Aside), Len(v) <= 1,
         AsideHolds(v, s.cols, s.rows, s.wild)
  PROVE  Moved(s, [s EXCEPT !.normal = v])
<1> DEFINE n == [s EXCEPT !.normal = v]
<1>1. s \in TermRecord
  BY DEF Sound
<1>2. n \in TermRecord
  BY <1>1, Zenon DEF TermRecord
<1>3. /\ n.cols = s.cols /\ n.rows = s.rows /\ n.wild = s.wild /\ n.normal = v
      /\ SameBuffer(s, n) /\ SameCursor(s, n) /\ SameCharset(s, n) /\ SamePaint(s, n)
      /\ n.thrown = s.thrown
  BY <1>1, Zenon DEF TermRecord, SameBuffer, SameCursor, SameCharset, SamePaint
<1> HIDE DEF n
<1>4. Sound(n)
  BY <1>2, <1>3, Zenon DEF Sound, SameBuffer, SameCursor, SameCharset
<1> QED BY <1>3, <1>4, MovedPaint, Zenon DEF n

\* what AlternateScreen puts aside fits the terminal
LEMMA KeptAside ==
  ASSUME NEW s, Sound(s)
  PROVE  /\ <<Kept(s)>> \in Seq(Aside) /\ Len(<<Kept(s)>>) <= 1
         /\ AsideHolds(<<Kept(s)>>, s.cols, s.rows, s.wild)
<1> DEFINE m == Kept(s)
           v == <<m>>
<1>1. s \in TermRecord
  BY DEF Sound
<1>2. m \in Aside
  BY <1>1, Zenon DEF TermRecord, Kept, Aside
<1>3. /\ m.lines = s.lines /\ m.ybase = s.ybase /\ m.ydisp = s.ydisp /\ m.y = s.y
      /\ m.scrollTop = s.scrollTop /\ m.scrollBottom = s.scrollBottom
  BY Zenon DEF Kept
<1> HIDE DEF m
<1>4. v \in Seq(Aside) /\ Len(v) <= 1 /\ v[1] = m
  BY <1>2
<1> HIDE DEF v
<1>5. AsideHolds(v, s.cols, s.rows, s.wild)
  BY <1>3, <1>4, Zenon DEF AsideHolds, Sound
<1> QED BY <1>4, <1>5, Zenon DEF v, m

\* the alternate screen starts as a reset one
LEMMA AlternateScreenMoved ==
  ASSUME NEW s, Sound(s)
  PROVE  /\ Moved(s, AlternateScreen(s))
         /\ s.normal # <<>> => AlternateScreen(s).normal = s.normal
<1> DEFINE r == reset(s)
           v == <<Kept(s)>>
           n == [r EXCEPT !.normal = v]
<1>1. CASE s.normal # <<>>
  <2>1. AlternateScreen(s) = s
    BY <1>1, Zenon DEF AlternateScreen
  <2> QED BY <2>1, Zenon DEF Moved
<1>2. CASE s.normal = <<>>
  <2>1. AlternateScreen(s) = showCursor(n)
    BY <1>2, Zenon DEF AlternateScreen
  <2>2. Moved(s, r)
    BY resetMoved, Zenon
  <2>3. v \in Seq(Aside) /\ Len(v) <= 1 /\ AsideHolds(v, s.cols, s.rows, s.wild)
    BY KeptAside, Zenon
  <2> HIDE DEF r, v
  <2>4. Moved(r, n)
    BY <2>2, <2>3, PutNormal, Zenon DEF Moved
  <2> HIDE DEF n
  <2>5. Moved(n, showCursor(n))
    BY <2>4, showCursorHandled, HandledMoved, Zenon DEF Moved
  <2> QED BY <1>2, <2>1, <2>2, <2>4, <2>5, MovedTwice, Zenon
<1> QED BY <1>1, <1>2, Zenon

\* the main screen returns as it was put aside
LEMMA MainScreenMoved ==
  ASSUME NEW s, Sound(s)
  PROVE  Moved(s, MainScreen(s)) /\ MainScreen(s).normal = <<>>
<1> DEFINE m == s.normal[1]
           e == <<>>
           n == [s EXCEPT !.lines = m.lines, !.ybase = m.ybase, !.ydisp = m.ydisp, !.x = m.x,
                          !.y = m.y, !.scrollTop = m.scrollTop, !.scrollBottom = m.scrollBottom,
                          !.tabs = m.tabs, !.normal = e]
           r == refresh(Changed(n, 0, n.rows - 1), 0, n.rows - 1)
<1>1. CASE s.normal = <<>>
  <2>1. MainScreen(s) = s
    BY <1>1, Zenon DEF MainScreen
  <2> QED BY <1>1, <2>1, Zenon DEF Moved
<1>2. CASE s.normal # <<>>
  <2>1. MainScreen(s) = showCursor(refresh(Changed(n, 0, s.rows - 1), 0, s.rows - 1))
    BY <1>2, Zenon DEF MainScreen
  <2>2. s \in TermRecord /\ s.normal \in Seq(Aside)
    BY Zenon DEF Sound, TermRecord
  <2>3. m \in Aside
    BY <1>2, <2>2
  <2>4. /\ BufferHolds(m.lines, m.ybase, m.ydisp, s.cols, s.rows, s.wild)
        /\ CursorHolds(m.y, m.scrollTop, m.scrollBottom, s.rows, s.wild)
    BY <1>2, Zenon DEF Sound, AsideHolds
  <2>5. e \in Seq(Aside) /\ Len(e) <= 1 /\ e = <<>>
    BY EmptySeq
  <2> HIDE DEF m, e
  <2>6. /\ m.lines \in Seq(Nat) /\ m.ybase \in Nat /\ m.ydisp \in Nat /\ m.x \in Columns
        /\ m.y \in Nat /\ m.scrollTop \in Nat /\ m.scrollBottom \in Nat /\ m.tabs \in SUBSET Nat
    BY <2>3, Zenon DEF Aside
  <2>7. n \in TermRecord
    BY <2>2, <2>5, <2>6, ZenonT(60) DEF TermRecord
  <2>8. /\ n.cols = s.cols /\ n.rows = s.rows /\ n.wild = s.wild /\ n.normal = e
        /\ n.lines = m.lines /\ n.ybase = m.ybase /\ n.ydisp = m.ydisp /\ n.y = m.y
        /\ n.scrollTop = m.scrollTop /\ n.scrollBottom = m.scrollBottom
        /\ SameCharset(s, n) /\ SamePaint(s, n) /\ n.thrown = s.thrown
    BY <2>2, ZenonT(60) DEF TermRecord, SameCharset, SamePaint
  <2> HIDE DEF n
  <2>9. AsideHolds(n.normal, n.cols, n.rows, n.wild)
    BY <2>5, <2>8, Zenon DEF AsideHolds
  <2>10. Sound(n)
    BY <2>4, <2>5, <2>7, <2>8, <2>9, Zenon DEF Sound, SameCharset
  <2>11. Moved(s, n)
    BY <2>8, <2>10, MovedPaint, Zenon
  <2>12. Moved(n, r) /\ r.normal = n.normal
    BY <2>10, AllRepainted, RefreshedHandled, HandledMoved, Zenon
  <2>13. MainScreen(s) = showCursor(r)
    BY <2>1, <2>8, Zenon
  <2> HIDE DEF r
  <2>14. Moved(r, showCursor(r)) /\ showCursor(r).normal = r.normal
    BY <2>12, showCursorHandled, HandledMoved, Zenon DEF Moved
  <2> QED BY <2>5, <2>8, <2>11, <2>12, <2>13, <2>14, MovedTwice, Zenon
<1> QED BY <1>1, <1>2, Zenon

(***************************************************************************)
(* Margins and cursors off the screen, and soft reset.                     *)
(***************************************************************************)
\* what holds of a tame terminal holds of a wild one
LEMMA Wilder ==
  ASSUME NEW s, Sound(s), NEW w \in BOOLEAN, s.wild => w
  PROVE  /\ BufferHolds(s.lines, s.ybase, s.ydisp, s.cols, s.rows, w)
         /\ AsideHolds(s.normal, s.cols, s.rows, w)
         /\ ~w => ~s.thrown
  BY Zenon DEF Sound, BufferHolds, AsideHolds, CursorHolds

\* what a handler may do to the main screen put aside
Step(s, n) ==
    /\ Sound(n)
    /\ Ranged(s) => Ranged(n)
    /\ n.normal \in {s.normal, <<>>}

LEMMA HandledStep ==
  ASSUME NEW s, NEW n, Handled(s, n)
  PROVE  Step(s, n)
  BY Zenon DEF Handled, Step, Frame

\* margins, which the host may put off the screen
LEMMA setScrollRegionStep ==
  ASSUME NEW s, Sound(s), NEW top \in Nat, NEW bottom \in Nat
  PROVE  Step(s, setScrollRegion(s, top, bottom))
<1> DEFINE a == ParamOr1(top) - 1
           b == (IF bottom = 0 THEN s.rows ELSE bottom) - 1
           z == 0
           w == s.wild \/ ParamOr1(top) > s.rows \/ b >= s.rows
           n == [s EXCEPT !.scrollTop = a, !.scrollBottom = b, !.x = z, !.y = z, !.wild = w]
<1>0. s \in TermRecord
  BY DEF Sound
<1>1. setScrollRegion(s, top, bottom) = n
  BY Zenon DEF setScrollRegion
<1>2. /\ s.rows \in Nat \ {0} /\ s.wild \in BOOLEAN
  BY SoundTypes
<1>3. a \in Nat /\ b \in Nat /\ z \in Nat /\ z \in Columns
  BY <1>2 DEF ParamOr1, Columns
<1>4. ~w => ~s.wild /\ a < s.rows /\ b < s.rows /\ z < s.rows
  <2> SUFFICES ASSUME ~w PROVE ~s.wild /\ a < s.rows /\ b < s.rows /\ z < s.rows
    BY Zenon
  <2>1. ~s.wild /\ ~(ParamOr1(top) > s.rows) /\ ~(b >= s.rows)
    BY Zenon
  <2> HIDE DEF b
  <2> QED BY <1>2, <1>3, <2>1, ParamOr1Nat
<1>5. w \in BOOLEAN /\ (s.wild => w)
  BY Zenon
<1> HIDE DEF a, b, z, w
<1>6. n \in TermRecord
  BY <1>0, <1>3, <1>5, Zenon DEF TermRecord
<1>7. /\ n.cols = s.cols /\ n.rows = s.rows /\ n.wild = w /\ n.normal = s.normal
      /\ SameBuffer(s, n) /\ SameCharset(s, n) /\ SamePaint(s, n) /\ n.thrown = s.thrown
      /\ n.y = z /\ n.scrollTop = a /\ n.scrollBottom = b
  BY <1>0, Zenon DEF TermRecord, SameBuffer, SameCharset, SamePaint
<1> HIDE DEF n
<1>8. /\ BufferHolds(s.lines, s.ybase, s.ydisp, s.cols, s.rows, w)
      /\ AsideHolds(s.normal, s.cols, s.rows, w) /\ (~w => ~s.thrown)
  BY <1>5, Wilder, Zenon
<1>9. CursorHolds(z, a, b, s.rows, w)
  BY <1>4, Zenon DEF CursorHolds
<1>10. Sound(n)
  BY <1>6, <1>7, <1>8, <1>9, Zenon DEF Sound, SameBuffer, SameCharset
<1>11. Ranged(s) => Ranged(n)
  BY <1>4, <1>7, Zenon DEF Ranged, SamePaint
<1> QED BY <1>1, <1>7, <1>10, <1>11, Zenon DEF Step

\* the saved cursor, which may be off a screen resized since
LEMMA restoreCursorStep ==
  ASSUME NEW s, Sound(s)
  PROVE  Step(s, restoreCursor(s))
<1> DEFINE x == IF s.savedX = NaN THEN 0 ELSE s.savedX
           y == s.savedY
           w == s.wild \/ s.savedY >= s.rows
           n == [s EXCEPT !.x = x, !.y = y, !.wild = w]
<1>0. s \in TermRecord
  BY DEF Sound
<1>1. restoreCursor(s) = n
  BY Zenon DEF restoreCursor
<1>2. s.rows \in Nat /\ s.wild \in BOOLEAN /\ y \in Nat /\ x \in Columns
  BY SoundTypes DEF Columns
<1>3. ~w => ~s.wild /\ y < s.rows
  <2>1. ~w => ~s.wild /\ ~(s.savedY >= s.rows)
    BY Zenon
  <2> QED BY <1>2, <2>1
<1>4. w \in BOOLEAN /\ (s.wild => w)
  BY Zenon
<1> HIDE DEF x, y, w
<1>5. n \in TermRecord
  BY <1>0, <1>2, <1>4, Zenon DEF TermRecord
<1>6. /\ n.cols = s.cols /\ n.rows = s.rows /\ n.wild = w /\ n.normal = s.normal
      /\ SameBuffer(s, n) /\ SameCharset(s, n) /\ SamePaint(s, n) /\ n.thrown = s.thrown
      /\ n.y = y /\ n.scrollTop = s.scrollTop /\ n.scrollBottom = s.scrollBottom
  BY <1>0, Zenon DEF TermRecord, SameBuffer, SameCharset, SamePaint
<1> HIDE DEF n
<1>7. /\ BufferHolds(s.lines, s.ybase, s.ydisp, s.cols, s.rows, w)
      /\ AsideHolds(s.normal, s.cols, s.rows, w) /\ (~w => ~s.thrown)
  BY <1>4, Wilder, Zenon
<1>8. CursorHolds(y, s.scrollTop, s.scrollBottom, s.rows, w)
  BY <1>3, Zenon DEF CursorHolds, Sound
<1>9. Sound(n)
  BY <1>5, <1>6, <1>7, <1>8, Zenon DEF Sound, SameBuffer, SameCharset
<1>10. Ranged(s) => Ranged(n)
  BY <1>3, <1>6, Zenon DEF Ranged, SamePaint
<1> QED BY <1>1, <1>6, <1>9, <1>10, Zenon DEF Step

\* a soft reset
LEMMA softResetHandled ==
  ASSUME NEW s, Sound(s)
  PROVE  Handled(s, softReset(s))
<1> DEFINE ms == s.modes \ {"cursorHidden", "insertMode", "originMode", "wraparoundMode",
                            "applicationKeypad", "applicationCursor"}
           z == 0
           b == s.rows - 1
           cs == "none"
           cg == [g \in 0..3 |-> cs]
           n == [s EXCEPT !.modes = ms, !.scrollTop = z, !.scrollBottom = b, !.x = z, !.y = z,
                          !.charset = cs, !.glevel = z, !.charsets = cg]
<1>0. s \in TermRecord
  BY DEF Sound
<1>1. softReset(s) = n
  BY Zenon DEF softReset
<1>2. /\ z \in Nat /\ z \in 0..3 /\ z \in Columns /\ b \in Nat /\ b < s.rows /\ z < s.rows
  BY SoundTypes DEF Columns
<1>3. ms \in SUBSET Flags
  <2>1. s.modes \in SUBSET Flags
    BY SoundTypes, Zenon
  <2> QED BY <2>1, Zenon
<1>4. cs \in Charsets /\ cg \in [0..3 -> Charsets] /\ cg[z] = cs
  BY DEF Charsets
<1> HIDE DEF ms, z, b, cs, cg
<1>5. n \in TermRecord
  BY <1>0, <1>2, <1>3, <1>4, ZenonT(60) DEF TermRecord
<1>6. /\ Frame(s, n) /\ SameBuffer(s, n) /\ SamePaint(s, n) /\ n.thrown = s.thrown
      /\ n.y = z /\ n.scrollTop = z /\ n.scrollBottom = b
      /\ n.charset = cs /\ n.charsets = cg /\ n.glevel = z
  BY <1>0, ZenonT(60) DEF TermRecord, Frame, SameBuffer, SamePaint
<1> HIDE DEF n
<1>7. CursorHolds(n.y, n.scrollTop, n.scrollBottom, n.rows, n.wild)
  BY <1>2, <1>6, Zenon DEF CursorHolds, Frame
<1>8. Sound(n)
  BY <1>4, <1>5, <1>6, <1>7, Zenon DEF Sound, Frame, SameBuffer
<1> QED BY <1>1, <1>6, <1>8, RangedSame, Zenon DEF Handled

LEMMA PutCharset ==
  ASSUME NEW s, Sound(s), NEW cs \in Charsets, NEW cg \in [0..3 -> Charsets], NEW g \in 0..3,
         cs = cg[g]
  PROVE  Handled(s, [s EXCEPT !.charset = cs, !.charsets = cg, !.glevel = g])
<1> DEFINE n == [s EXCEPT !.charset = cs, !.charsets = cg, !.glevel = g]
<1>1. s \in TermRecord
  BY DEF Sound
<1>2. n \in TermRecord
  BY <1>1, ZenonT(40) DEF TermRecord
<1>3. /\ Frame(s, n) /\ SameBuffer(s, n) /\ SameCursor(s, n) /\ SamePaint(s, n)
      /\ n.thrown = s.thrown /\ n.charset = cs /\ n.charsets = cg /\ n.glevel = g
  BY <1>1, Zenon DEF TermRecord, Frame, SameBuffer, SameCursor, SamePaint
<1> HIDE DEF n
<1>4. Sound(n)
  BY <1>2, <1>3, Zenon DEF Sound, Frame, SameBuffer, SameCursor
<1> QED BY <1>3, <1>4, RangedSame, Zenon DEF Handled, n

\* designations and shifts keep the translation current
LEMMA setgCharsetHandled ==
  ASSUME NEW s, Sound(s), NEW g \in 0..3, NEW cs \in Charsets
  PROVE  Handled(s, setgCharset(s, g, cs))
<1> DEFINE l == s.glevel
           cg == [s.charsets EXCEPT ![g] = cs]
           c == IF s.glevel = g THEN cs ELSE s.charset
           n == [s EXCEPT !.charset = c, !.charsets = cg, !.glevel = l]
<1>0. s \in TermRecord
  BY DEF Sound
<1>1. /\ s.charsets \in [0..3 -> Charsets] /\ s.charset \in Charsets /\ l \in 0..3
      /\ s.charset = s.charsets[l]
  BY Zenon DEF Sound, TermRecord
<1>2. setgCharset(s, g, cs) = n
  BY <1>0, Zenon DEF setgCharset, TermRecord
<1>3. cg \in [0..3 -> Charsets] /\ c \in Charsets
  BY <1>1, Zenon
<1>4. c = cg[l]
  BY <1>1, Zenon
<1> HIDE DEF cg, c, l
<1>5. Handled(s, n)
  BY <1>1, <1>3, <1>4, PutCharset, Zenon
<1> QED BY <1>2, <1>5, Zenon

LEMMA setgLevelHandled ==
  ASSUME NEW s, Sound(s), NEW g \in 0..3
  PROVE  Handled(s, setgLevel(s, g))
<1> DEFINE cg == s.charsets
           c == s.charsets[g]
           n == [s EXCEPT !.charset = c, !.charsets = cg, !.glevel = g]
<1>0. s \in TermRecord
  BY DEF Sound
<1>1. cg \in [0..3 -> Charsets]
  BY <1>0, Zenon DEF TermRecord
<1>2. setgLevel(s, g) = n
  BY <1>0, Zenon DEF setgLevel, TermRecord
<1>3. c \in Charsets /\ c = cg[g]
  BY <1>1, Zenon
<1> HIDE DEF cg, c
<1>4. Handled(s, n)
  BY <1>1, <1>3, PutCharset, Zenon
<1> QED BY <1>2, <1>4, Zenon

(***************************************************************************)
(* Modes.                                                                  *)
(***************************************************************************)
LEMMA FlagTypes ==
  ASSUME NEW p
  PROVE  /\ Flag(p) \in Flags \cup {"none"} /\ MouseFlag(p) \in Flags
         /\ MouseModes \subseteq Flags
  BY DEF Flag, MouseFlag, Flags, MouseModes

\* resize within a chunk: 132 columns and back
LEMMA resizeStep ==
  ASSUME NEW s, Sound(s), NEW x \in Nat
  PROVE  Step(s, resize(s, x, s.rows))
<1> DEFINE y == s.rows
           n == resize(s, x, y)
<1>1. y \in Nat /\ Max2(1, y) = s.rows
  BY SoundTypes DEF Max2
<1> HIDE DEF y
<1>2. /\ Sound(n) /\ n.normal = <<>> /\ n.to = s.to /\ n.rows = Max2(1, y) /\ n.wild = s.wild
      /\ Fresh(n)
  BY <1>1, resizeSound, Zenon
<1> HIDE DEF n
<1>3. Ranged(s) => Ranged(n)
  <2> SUFFICES ASSUME Ranged(s), ~n.wild
               PROVE  /\ n.to < n.rows
                      /\ \A q \in n.dirty : q \in n.edited \/ (n.from <= q /\ q <= n.to)
                      /\ \A q \in n.shown : q \in n.early \/ (n.from <= q /\ q <= n.to)
    BY Zenon DEF Ranged
  <2>1. n.dirty = {} /\ \A r \in n.shown : r \in n.early
    BY <1>2, Zenon DEF Fresh
  <2>2. s.to < s.rows
    BY <1>2, Zenon DEF Ranged
  <2> QED BY <1>1, <1>2, <2>1, <2>2, Zenon
<1> QED BY <1>2, <1>3, Zenon DEF Step, n, y

LEMMA StepSavedCols ==
  ASSUME NEW s, NEW n, Step(s, n), NEW c \in Nat
  PROVE  Step(s, [n EXCEPT !.savedCols = c])
<1> DEFINE m == [n EXCEPT !.savedCols = c]
<1>1. Handled(n, m)
  BY PutSavedCols, Zenon DEF Step
<1> HIDE DEF m
<1> QED BY <1>1, Zenon DEF Step, Handled, Frame, m

\* every mode but the alternate screen's leaves what is put aside, or drops it
ModeStep(s, p, n) ==
    /\ Sound(n)
    /\ Ranged(s) => Ranged(n)
    /\ s.normal # <<>> \/ p \notin AlternateParams => n.normal \in {s.normal, <<>>}

LEMMA StepMode ==
  ASSUME NEW s, NEW p, NEW n, Step(s, n)
  PROVE  ModeStep(s, p, n)
  BY Zenon DEF Step, ModeStep

LEMMA ModesHandled ==
  ASSUME NEW s, Sound(s), NEW a, NEW b, NEW c
  PROVE  /\ b \subseteq Flags => Handled(s, [s EXCEPT !.modes = (@ \ a) \cup b])
         /\ b \subseteq Flags => Handled(s, [s EXCEPT !.modes = @ \cup b])
         /\ Handled(s, [s EXCEPT !.modes = @ \ c])
<1> DEFINE u == (s.modes \ a) \cup b
           v == s.modes \cup b
           w == s.modes \ c
<1>1. s.modes \in SUBSET Flags
  BY SoundTypes, Zenon
<1>2. b \subseteq Flags => u \in SUBSET Flags /\ v \in SUBSET Flags
  BY <1>1, Zenon
<1>3. w \in SUBSET Flags
  BY <1>1, Zenon
<1> HIDE DEF u, v, w
<1>4. /\ b \subseteq Flags => Handled(s, [s EXCEPT !.modes = u])
      /\ b \subseteq Flags => Handled(s, [s EXCEPT !.modes = v])
      /\ Handled(s, [s EXCEPT !.modes = w])
  BY <1>2, <1>3, PutModes, Zenon
<1> QED BY <1>4, Zenon DEF u, v, w

\* one parameter of CSI Pm h, under a prefix
LEMMA setModeStep ==
  ASSUME NEW s, Sound(s), NEW p
  PROVE  ModeStep(s, p, setMode(s, p))
<1> DEFINE n4 == [s EXCEPT !.modes = @ \cup {"insertMode"}]
           n2 == [s EXCEPT !.charsets = [g \in 0..3 |-> "US"], !.charset = "US"]
           n3 == resize([s EXCEPT !.savedCols = s.cols], WideCols, s.rows)
           n25 == [s EXCEPT !.modes = @ \ {"cursorHidden"}]
           nm == [s EXCEPT !.modes = (@ \ MouseModes) \cup {MouseFlag(p), "mouseEvents"}]
           na == AlternateScreen(s)
           nf == [s EXCEPT !.modes = @ \cup {Flag(p)}]
           n == setMode(s, p)
<1>1. \/ n = n4 \/ n = n2 \/ n = n3 \/ n = n25 \/ n = nm \/ n = s
      \/ p \in AlternateParams /\ n = na
      \/ Flag(p) # "none" /\ n = nf
  <2> DEFINE q == s.prefix = "?"
             e == s.prefix = ""
             f == Flag(p) # "none"
             m == p \in MouseParams
             a == p \in AlternateParams
  <2>1. n = CASE e /\ p = 4 -> n4 [] q /\ p = 2 -> n2 [] q /\ p = 3 -> n3 [] q /\ p = 25 -> n25
              [] q /\ m -> nm [] q /\ a -> na [] q /\ f -> nf [] OTHER -> s
    BY Zenon DEF setMode
  <2> DEFINE wa == IF a THEN na ELSE s
             wf == IF f THEN nf ELSE s
  <2> HIDE DEF n, n4, n2, n3, n25, nm, na, nf, q, e, f, m, a
  <2>2. \/ n = n4 \/ n = n2 \/ n = n3 \/ n = n25 \/ n = nm \/ n = s \/ n = wa \/ n = wf
    BY <2>1
  <2> QED BY <2>2, Zenon DEF a, f
<1>2. Step(s, n4)
  <2>1. {"insertMode"} \subseteq Flags
    BY DEF Flags
  <2> QED BY <2>1, ModesHandled, HandledStep, Zenon
<1>3. Step(s, n2)
  <2> DEFINE c == "US"
             cg == [g \in 0..3 |-> c]
             l == s.glevel
  <2>1. l \in 0..3 /\ s \in TermRecord
    BY Zenon DEF Sound, TermRecord
  <2>2. c \in Charsets /\ cg \in [0..3 -> Charsets] /\ c = cg[l]
    BY <2>1 DEF Charsets
  <2> HIDE DEF c
  <2>3. n2 = [s EXCEPT !.charset = c, !.charsets = cg, !.glevel = l]
    BY <2>1, Zenon DEF TermRecord, c
  <2> HIDE DEF cg, l
  <2>4. Handled(s, [s EXCEPT !.charset = c, !.charsets = cg, !.glevel = l])
    BY <2>1, <2>2, PutCharset, Zenon
  <2> QED BY <2>3, <2>4, HandledStep, Zenon
<1>4. Step(s, n3)
  <2> DEFINE c == s.cols
             m == [s EXCEPT !.savedCols = c]
  <2>1. c \in Nat /\ WideCols \in Nat
    BY SoundTypes, ScreenAssumption
  <2> HIDE DEF c
  <2>2. Handled(s, m)
    BY <2>1, PutSavedCols, Zenon
  <2>3. n3 = resize(m, WideCols, m.rows)
    BY <2>2, Zenon DEF Handled, Frame, c
  <2> HIDE DEF m
  <2>4. Step(m, resize(m, WideCols, m.rows))
    BY <2>1, <2>2, resizeStep, Zenon DEF Handled
  <2> QED BY <2>2, <2>3, <2>4, Zenon DEF Step, Handled, Frame
<1>5. Step(s, n25)
  BY ModesHandled, HandledStep, Zenon
<1>6. Step(s, nm)
  <2>1. {MouseFlag(p), "mouseEvents"} \subseteq Flags
    BY FlagTypes DEF MouseModes
  <2> QED BY <2>1, ModesHandled, HandledStep, Zenon
<1>7. Flag(p) # "none" => Step(s, nf)
  <2>1. Flag(p) # "none" => {Flag(p)} \subseteq Flags
    BY FlagTypes, Zenon
  <2> QED BY <2>1, ModesHandled, HandledStep, Zenon
<1>8. p \in AlternateParams => ModeStep(s, p, na)
  BY AlternateScreenMoved, Zenon DEF ModeStep, Moved
<1>9. Step(s, s)
  BY HandledSelf, HandledStep, Zenon
<1> HIDE DEF n, n4, n2, n3, n25, nm, na, nf
<1>10. ModeStep(s, p, n)
  BY <1>1, <1>2, <1>3, <1>4, <1>5, <1>6, <1>7, <1>8, <1>9, StepMode, Zenon
<1> QED BY <1>10, Zenon DEF n

\* one parameter of CSI Pm l, under a prefix
LEMMA resetModeStep ==
  ASSUME NEW s, Sound(s), NEW p
  PROVE  ModeStep(s, p, resetMode(s, p))
<1> DEFINE n4 == [s EXCEPT !.modes = @ \ {"insertMode"}]
           back == IF s.cols = WideCols /\ s.savedCols # 0
                   THEN resize(s, s.savedCols, s.rows) ELSE s
           n3 == [back EXCEPT !.savedCols = 0]
           n25 == [s EXCEPT !.modes = @ \cup {"cursorHidden"}]
           nm == [s EXCEPT !.modes = @ \ MouseModes]
           na == MainScreen(s)
           nf == [s EXCEPT !.modes = @ \ {Flag(p)}]
           n == resetMode(s, p)
<1>1. \/ n = n4 \/ n = n3 \/ n = n25 \/ n = nm \/ n = s \/ n = na \/ n = nf
  <2> DEFINE q == s.prefix = "?"
             e == s.prefix = ""
             f == Flag(p) # "none"
             m == p \in MouseParams
             a == p \in AlternateParams
  <2>1. n = CASE e /\ p = 4 -> n4 [] q /\ p = 3 -> n3 [] q /\ p = 25 -> n25
              [] q /\ m -> nm [] q /\ a -> na [] q /\ f -> nf [] OTHER -> s
    BY Zenon DEF resetMode
  <2> HIDE DEF n, n4, n3, n25, nm, na, nf, q, e, f, m, a
  <2> QED BY <2>1
<1>2. Step(s, n4) /\ Step(s, nm) /\ Step(s, nf)
  BY ModesHandled, HandledStep, Zenon
<1>3. Step(s, n3)
  <2>1. s.savedCols \in Nat
    BY SoundTypes, Zenon
  <2>2. Step(s, s)
    BY HandledSelf, HandledStep, Zenon
  <2>3. Step(s, back)
    BY <2>1, <2>2, resizeStep, Zenon
  <2> DEFINE z == 0
  <2>4. z \in Nat
    OBVIOUS
  <2> HIDE DEF back, z
  <2>5. Step(s, [back EXCEPT !.savedCols = z])
    BY <2>3, <2>4, StepSavedCols, Zenon
  <2> QED BY <2>5, Zenon DEF z
<1>4. Step(s, n25)
  <2>1. {"cursorHidden"} \subseteq Flags
    BY DEF Flags
  <2> QED BY <2>1, ModesHandled, HandledStep, Zenon
<1>5. Step(s, na)
  BY MainScreenMoved, Zenon DEF Moved, Step
<1>6. Step(s, s)
  BY HandledSelf, HandledStep, Zenon
<1> HIDE DEF n, n4, n3, n25, nm, na, nf
<1>7. Step(s, n)
  BY <1>1, <1>2, <1>3, <1>4, <1>5, <1>6, Zenon
<1> QED BY <1>7, StepMode, Zenon DEF n

(***************************************************************************)
(* Between chunks.                                                         *)
(***************************************************************************)
\* the cursor counts as drawn early only until the chunk has ended
LEMMA SettledSound ==
  ASSUME NEW s, Sound(s)
  PROVE  /\ Sound(Settled(s)) /\ Frame(s, Settled(s))
         /\ Rested(s) => Rested(Settled(s))
<1> DEFINE e == s.early \ {s.y}
           n == [s EXCEPT !.early = e]
<1>1. s \in TermRecord /\ Settled(s) = n
  BY Zenon DEF Sound, Settled
<1>2. e \in SUBSET Nat
  <2>1. s.early \in SUBSET Nat
    BY <1>1, Zenon DEF TermRecord
  <2> QED BY <2>1, Zenon
<1>3. \A r \in s.early : r = s.y \/ r \in e
  BY Zenon
<1> HIDE DEF e
<1>4. n \in TermRecord
  BY <1>1, <1>2, Zenon DEF TermRecord
<1>5. /\ Frame(s, n) /\ SameBuffer(s, n) /\ SameCursor(s, n) /\ SameCharset(s, n)
      /\ n.thrown = s.thrown /\ n.dirty = s.dirty /\ n.edited = s.edited /\ n.shown = s.shown
      /\ n.early = e
  BY <1>1, Zenon DEF TermRecord, Frame, SameBuffer, SameCursor, SameCharset
<1> HIDE DEF n
<1>6. Sound(n)
  BY <1>4, <1>5, SoundSame, Zenon
<1>7. Rested(s) => Rested(n)
  BY <1>3, <1>5, Zenon DEF Rested, Frame, SameCursor
<1> QED BY <1>1, <1>5, <1>6, <1>7, Zenon

\* a repaint between chunks leaves the page painted
LEMMA RestedRefreshed ==
  ASSUME NEW s, NEW n, NEW a, NEW b, Refreshed(s, n, a, b), Rested(s)
  PROVE  Rested(n)
<1> SUFFICES ASSUME ~n.wild
             PROVE  n.dirty \subseteq n.edited /\ n.shown \subseteq {n.y} \cup n.early
  BY Zenon DEF Rested
<1>1. ~s.wild /\ n.y = s.y
  BY Zenon DEF Refreshed, Frame, SameCursor
<1>2. s.dirty \subseteq s.edited /\ s.shown \subseteq {s.y} \cup s.early
  BY <1>1, Zenon DEF Rested
<1>3. /\ n.dirty = s.dirty \ (a..b) /\ n.edited = s.edited \ (a..b)
      /\ \A r \in n.shown : r = s.y \/ (r \in s.shown /\ r \notin a..b)
      /\ \A r \in s.early : r \notin a..b => r \in n.early
  BY <1>1, Zenon DEF Refreshed, Repaints
<1> DEFINE R == a..b
<1> HIDE DEF R
<1>4. n.dirty \subseteq n.edited
  BY <1>2, <1>3, Zenon
<1>5. ASSUME NEW r \in n.shown PROVE r \in {n.y} \cup n.early
  BY <1>1, <1>2, <1>3, Zenon
<1> QED BY <1>4, <1>5, Zenon

\* the repaint of EndWrite: the range covers all that changed
LEMMA RangedRefreshed ==
  ASSUME NEW s, Sound(s), Ranged(s), s.from <= s.y, s.y <= s.to, NEW n,
         Refreshed(s, n, s.from, s.to)
  PROVE  Rested(n)
<1> SUFFICES ASSUME ~n.wild
             PROVE  n.dirty \subseteq n.edited /\ n.shown \subseteq {n.y} \cup n.early
  BY Zenon DEF Rested
<1> DEFINE R == s.from..s.to
<1>1. ~s.wild /\ n.y = s.y
  BY Zenon DEF Refreshed, Frame, SameCursor
<1>2. s.dirty \subseteq Nat /\ s.shown \subseteq Nat /\ s.from \in Nat /\ s.to \in Nat
  BY Zenon DEF Sound, TermRecord
<1>3. /\ \A r \in s.dirty : r \in s.edited \/ (s.from <= r /\ r <= s.to)
      /\ \A r \in s.shown : r \in s.early \/ (s.from <= r /\ r <= s.to)
  BY <1>1, Zenon DEF Ranged
<1>4. ASSUME NEW r \in Nat, s.from <= r /\ r <= s.to PROVE r \in R
  BY <1>2, <1>4
<1>5. /\ n.dirty = s.dirty \ R /\ n.edited = s.edited \ R
      /\ \A r \in n.shown : r = s.y \/ (r \in s.shown /\ r \notin R)
      /\ \A r \in s.early : r \notin R => r \in n.early
  BY <1>1, Zenon DEF Refreshed, Repaints
<1> HIDE DEF R
<1>6. ASSUME NEW r \in n.dirty PROVE r \in n.edited
  <2>1. r \in s.dirty /\ r \notin R /\ r \in Nat
    BY <1>2, <1>5, Zenon
  <2> QED BY <1>3, <1>4, <1>5, <2>1, Zenon
<1>7. ASSUME NEW r \in n.shown PROVE r \in {n.y} \cup n.early
  <2>1. r = s.y \/ (r \in s.shown /\ r \notin R /\ r \in Nat)
    BY <1>2, <1>5, Zenon
  <2> QED BY <1>1, <1>3, <1>4, <1>5, <2>1, Zenon
<1> QED BY <1>6, <1>7, Zenon

\* a call from the page starts without an exception, perhaps with the focus lost
LEMMA Calm ==
  ASSUME NEW s, Sound(s), NEW c \in BOOLEAN
  PROVE  LET n == [s EXCEPT !.cursorState = c, !.thrown = FALSE]
         IN /\ Sound(n) /\ Frame(s, n) /\ SameBuffer(s, n) /\ SameCursor(s, n) /\ SamePaint(s, n)
            /\ Rested(s) => Rested(n)
<1> DEFINE o == FALSE
           n == [s EXCEPT !.cursorState = c, !.thrown = o]
<1>0. o \in BOOLEAN /\ ~o
  OBVIOUS
<1>1. s \in TermRecord
  BY DEF Sound
<1> HIDE DEF o
<1>2. n \in TermRecord
  BY <1>0, <1>1, Zenon DEF TermRecord
<1>3. /\ Frame(s, n) /\ SameBuffer(s, n) /\ SameCursor(s, n) /\ SameCharset(s, n)
      /\ SamePaint(s, n) /\ n.thrown = o
  BY <1>1, Zenon DEF TermRecord, Frame, SameBuffer, SameCursor, SameCharset, SamePaint
<1> HIDE DEF n
<1>4. Sound(n)
  BY <1>0, <1>2, <1>3, Zenon DEF Sound, Frame, SameBuffer, SameCursor, SameCharset
<1>5. Rested(s) => Rested(n)
  BY <1>3, Zenon DEF Rested, Frame, SameCursor, SamePaint
<1>6. Sound(n) /\ Frame(s, n) /\ SameBuffer(s, n) /\ SameCursor(s, n) /\ SamePaint(s, n)
      /\ (Rested(s) => Rested(n))
  BY <1>3, <1>4, <1>5, Zenon
<1> QED BY <1>6, Zenon DEF n, o

LEMMA Calmed ==
  ASSUME NEW s, Sound(s)
  PROVE  LET n == [s EXCEPT !.thrown = FALSE]
         IN /\ Sound(n) /\ Frame(s, n) /\ SameBuffer(s, n) /\ SameCursor(s, n) /\ SamePaint(s, n)
            /\ Rested(s) => Rested(n)
<1> DEFINE c == s.cursorState
           n == [s EXCEPT !.cursorState = c, !.thrown = FALSE]
<1>1. c \in BOOLEAN /\ s \in TermRecord
  BY Zenon DEF Sound, TermRecord
<1>2. n = [s EXCEPT !.thrown = FALSE]
  BY <1>1, Zenon DEF TermRecord
<1> HIDE DEF c
<1>3. /\ Sound(n) /\ Frame(s, n) /\ SameBuffer(s, n) /\ SameCursor(s, n) /\ SamePaint(s, n)
      /\ Rested(s) => Rested(n)
  BY <1>1, Calm, Zenon
<1> QED BY <1>2, <1>3, Zenon

\* what a call from the page may leave
Left(s, n) ==
    /\ Sound(n) /\ n.prefix = s.prefix /\ Rested(n)
    /\ n.normal \in {s.normal, <<>>}

LEMMA RefreshedLeft ==
  ASSUME NEW s, NEW n, NEW a, NEW b, Sound(s), Rested(s), Refreshed(s, n, a, b)
  PROVE  Left(s, n)
  BY RestedRefreshed, Zenon DEF Refreshed, Frame, Left

\* the user's scrolling, a key press, and the page's resize
LEMMA scrollDispLeft ==
  ASSUME NEW s, Sound(s), Rested(s), NEW disp \in Int
  PROVE  Left(s, scrollDisp(s, disp))
<1> DEFINE d == Max2(0, Min2(s.ydisp + disp, s.ybase))
           b == s.rows - 1
           z == 0
           l == s.lines
           yb == s.ybase
           m == [s EXCEPT !.ydisp = d]
           n == refresh(m, z, b)
<1>0. s \in TermRecord
  BY DEF Sound
<1>1. scrollDisp(s, disp) = n
  BY Zenon DEF scrollDisp
<1>2. d \in Nat /\ d <= s.ybase /\ b \in Nat /\ b < s.rows /\ z \in Nat /\ yb \in Nat
  BY SoundTypes DEF Max2, Min2
<1> HIDE DEF d, b, z
<1>3. BufferHolds(l, yb, d, s.cols, s.rows, s.wild)
  BY <1>2, SoundLines, Zenon DEF BufferHolds
<1>4. m = [s EXCEPT !.ybase = yb, !.ydisp = d, !.lines = l]
  BY <1>0, Zenon DEF TermRecord
<1>5. SamePaint(s, m) /\ SameCursor(s, m)
  BY <1>0, Zenon DEF TermRecord, SamePaint, SameCursor
<1> HIDE DEF l, yb
<1>6. Handled(s, [s EXCEPT !.ybase = yb, !.ydisp = d, !.lines = l])
  BY <1>2, <1>3, PutBuffer, Zenon
<1>7. Handled(s, m)
  BY <1>4, <1>6, Zenon
<1> HIDE DEF m
<1>8. Sound(m) /\ Frame(s, m) /\ (~m.wild => b < m.rows)
  BY <1>2, <1>7, Zenon DEF Handled, Frame
<1>9. Rested(m)
  BY <1>5, <1>8, Zenon DEF Rested, Frame, SamePaint, SameCursor
<1>10. Refreshed(m, n, z, b)
  BY <1>2, <1>8, refreshRefreshed, Zenon
<1>11. Left(m, n)
  BY <1>8, <1>9, <1>10, RefreshedLeft, Zenon
<1> QED BY <1>1, <1>8, <1>11, Zenon DEF Left, Frame

LEMMA showCursorLeft ==
  ASSUME NEW s, Sound(s), Rested(s)
  PROVE  Left(s, showCursor(s))
<1>1. CASE showCursor(s) = s
  BY <1>1, Zenon DEF Left
<1>2. CASE Refreshed(s, showCursor(s), s.y, s.y)
  BY <1>2, RefreshedLeft, Zenon
<1> QED BY <1>1, <1>2, showCursorRefreshed, Zenon

LEMMA resizeLeft ==
  ASSUME NEW s, Sound(s), NEW x \in Nat, NEW y \in Nat
  PROVE  Left(s, resize(s, x, y))
<1> DEFINE n == resize(s, x, y)
<1>1. Sound(n) /\ n.normal = <<>> /\ n.prefix = s.prefix /\ Fresh(n)
  BY resizeSound, Zenon
<1> HIDE DEF n
<1>2. Rested(n)
  BY <1>1, Zenon DEF Fresh, Rested
<1> QED BY <1>1, <1>2, Zenon DEF Left, n

(***************************************************************************)
(* The steps of the specification.                                         *)
(***************************************************************************)
\* what a handler may leave within a chunk
Result(a, s) ==
    /\ Sound(s)
    /\ Ranged(a) => Ranged(s)
    /\ a.normal # <<>> => s.normal \in {a.normal, <<>>}

LEMMA HandledResult ==
  ASSUME NEW a, NEW s, Handled(a, s) \/ Step(a, s) \/ (Moved(a, s) /\ s.normal = <<>>)
  PROVE  Result(a, s)
  BY Zenon DEF Handled, Frame, Step, Moved, Result

LEMMA PutPrefix ==
  ASSUME NEW s, Sound(s), NEW p \in {"", "?"}
  PROVE  LET n == [s EXCEPT !.prefix = p]
         IN /\ Sound(n) /\ n.prefix = p /\ n.normal = s.normal /\ n.wild = s.wild
            /\ Ranged(s) => Ranged(n)
<1> DEFINE n == [s EXCEPT !.prefix = p]
<1>1. s \in TermRecord
  BY DEF Sound
<1>2. n \in TermRecord
  BY <1>1, Zenon DEF TermRecord
<1>3. /\ n.cols = s.cols /\ n.rows = s.rows /\ n.wild = s.wild /\ n.normal = s.normal
      /\ SameBuffer(s, n) /\ SameCursor(s, n) /\ SameCharset(s, n) /\ SamePaint(s, n)
      /\ n.thrown = s.thrown /\ n.prefix = p
  BY <1>1, Zenon DEF TermRecord, SameBuffer, SameCursor, SameCharset, SamePaint
<1> HIDE DEF n
<1>4. Sound(n)
  BY <1>2, <1>3, Zenon DEF Sound, SameBuffer, SameCursor, SameCharset
<1>5. Ranged(s) => Ranged(n)
  BY <1>3, Zenon DEF Ranged, SamePaint
<1>6. Sound(n) /\ n.prefix = p /\ n.normal = s.normal /\ n.wild = s.wild
      /\ (Ranged(s) => Ranged(n))
  BY <1>3, <1>4, <1>5, Zenon
<1> QED BY <1>6, Zenon DEF n

MainKept == t.normal # <<>> /\ t'.normal # <<>> => t'.normal = t.normal

\* a handler of the host's program keeps the invariant
LEMMA HandleKeeps ==
  ASSUME ScreenInv, NEW f, NEW s, Result(t, s), Handle(f, s)
  PROVE  ScreenInv' /\ MainKept
<1> DEFINE e == ""
<1>0. e \in {"", "?"} /\ e = ""
  OBVIOUS
<1>1. /\ busy /\ t' = [s EXCEPT !.prefix = e] /\ busy' = ~s.thrown /\ family' = family
      /\ family \in Families /\ Ranged(t)
  BY Zenon DEF Handle, ScreenInv
<1>2. Sound(s) /\ Ranged(s) /\ (t.normal # <<>> => s.normal \in {t.normal, <<>>})
  BY <1>1, Zenon DEF Result
<1> HIDE DEF e
<1>3. /\ Sound(t') /\ t'.prefix = e /\ t'.normal = s.normal /\ t'.wild = s.wild /\ Ranged(t')
  BY <1>0, <1>1, <1>2, PutPrefix, Zenon
<1>4. busy' \in BOOLEAN
  BY <1>1, Zenon
<1>5. ~busy' => Rested(t')
  BY <1>1, <1>2, <1>3, Zenon DEF Sound, Rested
<1>6. ScreenInv'
  BY <1>0, <1>1, <1>3, <1>4, <1>5, Zenon DEF ScreenInv
<1> QED BY <1>2, <1>3, <1>6, Zenon DEF MainKept

\* a call from the page keeps the invariant
LEMMA OutsideKeeps ==
  ASSUME ScreenInv, NEW s, ~busy => Left(t, s), Outside(s)
  PROVE  ScreenInv' /\ MainKept
<1>1. /\ ~busy /\ t' = Settled(s) /\ busy' = busy /\ family' = family
      /\ family \in Families /\ t.prefix = "" /\ busy \in BOOLEAN
  BY Zenon DEF Outside, ScreenInv
<1>2. Sound(s) /\ s.prefix = t.prefix /\ Rested(s) /\ s.normal \in {t.normal, <<>>}
  BY <1>1, Zenon DEF Left
<1>3. Sound(t') /\ Frame(s, t') /\ Rested(t')
  BY <1>1, <1>2, SettledSound, Zenon
<1> QED BY <1>1, <1>2, <1>3, Zenon DEF ScreenInv, MainKept, Frame

LEMMA ParamsNat ==
  Params \subseteq Nat
  BY ScreenAssumption DEF Params

\* the families of handlers, one lemma each
LEMMA TypingKeeps ==
  ASSUME ScreenInv, Typing
  PROVE  ScreenInv' /\ MainKept
<1>0. Sound(t)
  BY Zenon DEF ScreenInv
<1>1. ASSUME NEW wide \in BOOLEAN, Handle(On({"edit"}), Graphic(t, wide))
      PROVE  ScreenInv' /\ MainKept
  BY <1>0, <1>1, GraphicHandled, HandledResult, HandleKeeps, Zenon
<1>2. ASSUME Handle(On({"edit", "lines", "screens"}), lineFeed(t))
      PROVE  ScreenInv' /\ MainKept
  BY <1>0, <1>2, lineFeedHandled, HandledResult, HandleKeeps, Zenon
<1>3. ASSUME Handle(On({"edit", "tabs"}), [t EXCEPT !.x = 0])
      PROVE  ScreenInv' /\ MainKept
  <2> DEFINE z == 0
  <2>1. z \in Columns
    BY DEF Columns
  <2>2. Handle(On({"edit", "tabs"}), [t EXCEPT !.x = z])
    BY <1>3, Zenon
  <2> HIDE DEF z
  <2>3. Handled(t, [t EXCEPT !.x = z])
    BY <1>0, <2>1, PutX, Zenon
  <2> QED BY <2>2, <2>3, HandledResult, HandleKeeps, Zenon
<1>4. ASSUME Handle(On({"edit"}), [t EXCEPT !.x = IF @ > 0 THEN @ - 1 ELSE @])
      PROVE  ScreenInv' /\ MainKept
  <2> DEFINE z == IF t.x > 0 THEN t.x - 1 ELSE t.x
  <2>1. z \in Columns
    BY <1>0, SoundTypes DEF Columns, NaN
  <2>2. Handle(On({"edit"}), [t EXCEPT !.x = z])
    BY <1>4, Zenon
  <2> HIDE DEF z
  <2>3. Handled(t, [t EXCEPT !.x = z])
    BY <1>0, <2>1, PutX, Zenon
  <2> QED BY <2>2, <2>3, HandledResult, HandleKeeps, Zenon
<1>5. ASSUME Handle(On({"tabs"}), tabForward(t, 1))
      PROVE  ScreenInv' /\ MainKept
  <2> DEFINE z == 1
  <2>1. z \in Nat /\ Handle(On({"tabs"}), tabForward(t, z))
    BY <1>5
  <2> HIDE DEF z
  <2> QED BY <1>0, <2>1, tabForwardHandled, HandledResult, HandleKeeps, Zenon
<1> QED BY <1>1, <1>2, <1>3, <1>4, <1>5, Zenon DEF Typing

LEMMA EditingKeeps ==
  ASSUME ScreenInv, Editing
  PROVE  ScreenInv' /\ MainKept
<1>0. Sound(t)
  BY Zenon DEF ScreenInv
<1> PICK p \in Params :
        \/ Handle(On({"edit"}), eraseInDisplay(t, p))
        \/ Handle(On({"edit"}), eraseInLine(t, p))
        \/ Handle(On({"edit"}), insertChars(t, p))
        \/ Handle(On({"edit"}), deleteChars(t, p))
        \/ Handle(On({"edit"}), eraseChars(t, p))
        \/ Handle(On({"edit"}), repeatPrecedingCharacter(t, p))
  BY Zenon DEF Editing
<1>1. p \in Nat
  BY ParamsNat
<1>2. /\ Handled(t, eraseInDisplay(t, p)) /\ Handled(t, eraseInLine(t, p))
      /\ Handled(t, insertChars(t, p)) /\ Handled(t, deleteChars(t, p))
      /\ Handled(t, eraseChars(t, p)) /\ Handled(t, repeatPrecedingCharacter(t, p))
  BY <1>0, <1>1, eraseInDisplayHandled, eraseInLineHandled, insertCharsHandled,
     deleteCharsHandled, eraseCharsHandled, repeatPrecedingCharacterHandled, Zenon
<1> QED BY <1>2, HandledResult, HandleKeeps, Zenon

LEMMA AlongKeeps ==
  ASSUME ScreenInv, NEW p \in Nat, Along(p)
  PROVE  ScreenInv' /\ MainKept
<1>0. Sound(t)
  BY Zenon DEF ScreenInv
<1>1. /\ Handled(t, cursorUp(t, p)) /\ Handled(t, cursorDown(t, p))
      /\ Handled(t, cursorForward(t, p)) /\ Handled(t, cursorBackward(t, p))
      /\ Handled(t, cursorNextLine(t, p)) /\ Handled(t, cursorPrecedingLine(t, p))
  BY <1>0, cursorUpHandled, cursorDownHandled, cursorForwardHandled, cursorBackwardHandled,
     cursorNextLineHandled, cursorPrecedingLineHandled, Zenon
<1>2. /\ Handled(t, cursorCharAbsolute(t, p)) /\ Handled(t, charPosAbsolute(t, p))
      /\ Handled(t, linePosAbsolute(t, p))
  BY <1>0, cursorCharAbsoluteHandled, charPosAbsoluteHandled, linePosAbsoluteHandled, Zenon
<1>3. <<p>> \in Seq(Nat) /\ Len(<<p>>) >= 1
  OBVIOUS
<1>4. Handled(t, HVPosition(t, <<p>>))
  BY <1>0, <1>3, HVPositionHandled, Zenon
<1> QED BY <1>1, <1>2, <1>4, HandledResult, HandleKeeps, Zenon DEF Along

LEMMA MovingKeeps ==
  ASSUME ScreenInv, Moving
  PROVE  ScreenInv' /\ MainKept
<1>0. Sound(t)
  BY Zenon DEF ScreenInv
<1>1. ASSUME NEW q \in Corners PROVE q[1] \in Nat /\ q[2] \in Nat /\ q \in Seq(Nat) /\ Len(q) >= 1
  <2>1. MaxParam \in Nat
    BY ScreenAssumption, Zenon
  <2>2. q = <<0, MaxParam>> \/ q = <<MaxParam, 1>>
    BY Zenon DEF Corners
  <2>3. CASE q = <<0, MaxParam>>
    BY <2>1, <2>3
  <2>4. CASE q = <<MaxParam, 1>>
    BY <2>1, <2>4
  <2> QED BY <2>2, <2>3, <2>4, Zenon
<1>2. ASSUME NEW q \in Corners, Handle(On({"edit"}), cursorPos(t, q[1], q[2]))
      PROVE  ScreenInv' /\ MainKept
  <2>1. Handled(t, cursorPos(t, q[1], q[2]))
    BY <1>0, <1>1, cursorPosHandled, Zenon
  <2> QED BY <1>2, <2>1, HandledResult, HandleKeeps, Zenon
<1>3. ASSUME NEW q \in Corners, Handle(On({"edit"}), HVPosition(t, q))
      PROVE  ScreenInv' /\ MainKept
  <2>1. Handled(t, HVPosition(t, q))
    BY <1>0, <1>1, HVPositionHandled, Zenon
  <2> QED BY <1>3, <2>1, HandledResult, HandleKeeps, Zenon
<1>4. ASSUME Handle(On({"screens"}), saveCursor(t))
      PROVE  ScreenInv' /\ MainKept
  BY <1>0, <1>4, saveCursorHandled, HandledResult, HandleKeeps, Zenon
<1>5. ASSUME Handle(On({"screens"}), restoreCursor(t))
      PROVE  ScreenInv' /\ MainKept
  BY <1>0, <1>5, restoreCursorStep, HandledResult, HandleKeeps, Zenon
<1>6. ASSUME NEW p \in Params, Along(p)
      PROVE  ScreenInv' /\ MainKept
  BY <1>6, ParamsNat, AlongKeeps, Zenon
<1> QED BY <1>2, <1>3, <1>4, <1>5, <1>6, Zenon DEF Moving

LEMMA ScrollingKeeps ==
  ASSUME ScreenInv, Scrolling
  PROVE  ScreenInv' /\ MainKept
<1>0. Sound(t)
  BY Zenon DEF ScreenInv
<1> PICK p \in Params :
        \/ Handle(On({"lines"}), reverseIndex(t))
        \/ Handle(On({"lines"}), insertLines(t, p))
        \/ Handle(On({"lines"}), deleteLines(t, p))
        \/ Handle(On({"lines"}), scrollUp(t, p))
        \/ Handle(On({"lines"}), scrollDown(t, p))
        \/ \E q \in 0..MaxParam : Handle(On({"lines"}), setScrollRegion(t, q, p))
  BY Zenon DEF Scrolling
<1>1. p \in Nat
  BY ParamsNat
<1>2. /\ Handled(t, reverseIndex(t)) /\ Handled(t, insertLines(t, p))
      /\ Handled(t, deleteLines(t, p)) /\ Handled(t, scrollUp(t, p))
      /\ Handled(t, scrollDown(t, p))
  BY <1>0, <1>1, reverseIndexHandled, insertLinesHandled, deleteLinesHandled, scrollUpHandled,
     scrollDownHandled, Zenon
<1>3. ASSUME NEW q \in 0..MaxParam, Handle(On({"lines"}), setScrollRegion(t, q, p))
      PROVE  ScreenInv' /\ MainKept
  <2>1. q \in Nat
    OBVIOUS
  <2>2. Step(t, setScrollRegion(t, q, p))
    BY <1>0, <1>1, <2>1, setScrollRegionStep, Zenon
  <2> QED BY <1>3, <2>2, HandledResult, HandleKeeps, Zenon
<1> QED BY <1>2, <1>3, HandledResult, HandleKeeps, Zenon

LEMMA TabbingKeeps ==
  ASSUME ScreenInv, Tabbing
  PROVE  ScreenInv' /\ MainKept
<1>0. Sound(t)
  BY Zenon DEF ScreenInv
<1> PICK p \in Params :
        \/ Handle(On({"tabs"}), tabForward(t, ParamOr1(p)))
        \/ Handle(On({"tabs"}), tabBackward(t, ParamOr1(p)))
        \/ Handle(On({"tabs"}), tabSet(t))
        \/ Handle(On({"tabs"}), tabClear(t, p))
  BY Zenon DEF Tabbing
<1>1. p \in Nat /\ ParamOr1(p) \in Nat
  BY ParamsNat, ParamOr1Nat
<1>2. /\ Handled(t, tabForward(t, ParamOr1(p))) /\ Handled(t, tabBackward(t, ParamOr1(p)))
      /\ Handled(t, tabSet(t)) /\ Handled(t, tabClear(t, p))
  BY <1>0, <1>1, tabForwardHandled, tabBackwardHandled, tabSetHandled, tabClearHandled, Zenon
<1> QED BY <1>2, HandledResult, HandleKeeps, Zenon

\* one mode, or two of which the second is not the alternate screen's
LEMMA TwoModes ==
  ASSUME NEW s, NEW m, NEW n, NEW p, NEW q, q \notin AlternateParams,
         ModeStep(s, p, m), ModeStep(m, q, n)
  PROVE  Result(s, n)
  BY Zenon DEF ModeStep, Result

LEMMA ModeListsEnd ==
  ASSUME NEW ps \in ModeLists
  PROVE  Len(ps) = 1 \/ (Len(ps) # 1 /\ ps[2] \notin AlternateParams)
  BY DEF ModeLists, AlternateParams

LEMMA EachModeResult ==
  ASSUME NEW s, Sound(s), NEW ps \in ModeLists
  PROVE  Result(s, EachMode(setMode, s, ps)) /\ Result(s, EachMode(resetMode, s, ps))
<1> DEFINE a == setMode(s, ps[1])
           b == setMode(a, ps[2])
           c == resetMode(s, ps[1])
           d == resetMode(c, ps[2])
<1>1. EachMode(setMode, s, ps) = IF Len(ps) = 1 THEN a ELSE b
  BY Zenon DEF EachMode
<1>2. EachMode(resetMode, s, ps) = IF Len(ps) = 1 THEN c ELSE d
  BY Zenon DEF EachMode
<1>3. ModeStep(s, ps[1], a) /\ ModeStep(s, ps[1], c)
  BY setModeStep, resetModeStep, Zenon
<1> HIDE DEF a, c
<1>4. ModeStep(a, ps[2], b) /\ ModeStep(c, ps[2], d)
  BY <1>3, setModeStep, resetModeStep, Zenon DEF ModeStep
<1> HIDE DEF b, d
<1>5. Result(s, a) /\ Result(s, c)
  BY <1>3, Zenon DEF ModeStep, Result
<1>6. Len(ps) # 1 => Result(s, b) /\ Result(s, d)
  BY <1>3, <1>4, ModeListsEnd, TwoModes, Zenon
<1> QED BY <1>1, <1>2, <1>5, <1>6, Zenon

LEMMA ModesKeeps ==
  ASSUME ScreenInv, Modes
  PROVE  ScreenInv' /\ MainKept
<1>0. Sound(t)
  BY Zenon DEF ScreenInv
<1>1. ASSUME NEW ps \in ModeLists, NEW pre \in {"", "?"},
             \/ Handle(On({"screens", "modes"}), EachMode(setMode, [t EXCEPT !.prefix = pre], ps))
             \/ Handle(On({"screens", "modes"}), EachMode(resetMode, [t EXCEPT !.prefix = pre], ps))
      PROVE  ScreenInv' /\ MainKept
  <2> DEFINE s == [t EXCEPT !.prefix = pre]
             u == EachMode(setMode, s, ps)
             v == EachMode(resetMode, s, ps)
  <2>1. Sound(s) /\ s.normal = t.normal /\ (Ranged(t) => Ranged(s))
    BY <1>0, PutPrefix, Zenon
  <2>2. Handle(On({"screens", "modes"}), u) \/ Handle(On({"screens", "modes"}), v)
    BY <1>1, Zenon
  <2> HIDE DEF s
  <2>3. Result(s, u) /\ Result(s, v)
    BY <2>1, EachModeResult, Zenon
  <2> HIDE DEF u, v
  <2>4. Result(t, u) /\ Result(t, v)
    BY <2>1, <2>3, Zenon DEF Result
  <2> QED BY <2>2, <2>4, HandleKeeps, Zenon
<1>2. ASSUME Handle(On({"modes", "lines"}), softReset(t))
      PROVE  ScreenInv' /\ MainKept
  BY <1>0, <1>2, softResetHandled, HandledResult, HandleKeeps, Zenon
<1>3. ASSUME Handle(On({"screens", "modes", "tabs"}), reset(t))
      PROVE  ScreenInv' /\ MainKept
  BY <1>0, <1>3, resetMoved, HandledResult, HandleKeeps, Zenon
<1>4. ASSUME NEW g \in {0, 2}, NEW cs \in {"US", "SCLD"},
             Handle(On({"modes"}), setgCharset(t, g, cs))
      PROVE  ScreenInv' /\ MainKept
  <2>1. g \in 0..3 /\ cs \in Charsets
    BY DEF Charsets
  <2> QED BY <1>0, <1>4, <2>1, setgCharsetHandled, HandledResult, HandleKeeps, Zenon
<1>5. ASSUME NEW g \in {0, 2}, Handle(On({"modes"}), setgLevel(t, g))
      PROVE  ScreenInv' /\ MainKept
  <2>1. g \in 0..3
    OBVIOUS
  <2> QED BY <1>0, <1>5, <2>1, setgLevelHandled, HandledResult, HandleKeeps, Zenon
<1> QED BY <1>1, <1>2, <1>3, <1>4, <1>5, Zenon DEF Modes

LEMMA SizesNat ==
  ASSUME NEW sz \in Sizes
  PROVE  sz[1] \in Nat /\ sz[2] \in Nat
<1>1. sz \in Nat \X Nat
  BY ScreenAssumption, Zenon
<1> QED BY <1>1

LEMMA CalmLeft ==
  ASSUME NEW s, NEW m, NEW n, Frame(s, m), Left(m, n)
  PROVE  Left(s, n)
  BY Zenon DEF Frame, Left

\* the steps between chunks
LEMMA ResizeKeeps ==
  ASSUME ScreenInv, Resize
  PROVE  ScreenInv' /\ MainKept
<1> DEFINE m == [t EXCEPT !.thrown = FALSE]
<1>0. Sound(t)
  BY Zenon DEF ScreenInv
<1>1. PICK sz \in Sizes : Outside(resize(m, sz[1], sz[2]))
  BY Zenon DEF Resize
<1>2. Sound(m) /\ Frame(t, m)
  BY <1>0, Calmed, Zenon
<1> DEFINE x == sz[1]
           y == sz[2]
<1>3. x \in Nat /\ y \in Nat
  BY SizesNat, Zenon
<1>4. Outside(resize(m, x, y))
  BY <1>1, Zenon
<1> HIDE DEF m, x, y
<1>5. Left(m, resize(m, x, y))
  BY <1>2, <1>3, resizeLeft, Zenon
<1>6. Left(t, resize(m, x, y))
  BY <1>2, <1>5, CalmLeft, Zenon
<1> QED BY <1>4, <1>6, OutsideKeeps, Zenon

LEMMA ScrollViewKeeps ==
  ASSUME ScreenInv, ScrollView
  PROVE  ScreenInv' /\ MainKept
<1> DEFINE m == [t EXCEPT !.thrown = FALSE]
<1>0. Sound(t) /\ (~busy => Rested(t))
  BY Zenon DEF ScreenInv
<1>1. PICK d \in {-1, 1} : Outside(scrollDisp(m, d))
  BY Zenon DEF ScrollView
<1>2. Sound(m) /\ Frame(t, m) /\ (Rested(t) => Rested(m))
  BY <1>0, Calmed, Zenon
<1>3. d \in Int
  OBVIOUS
<1> HIDE DEF m
<1>4. ASSUME ~busy PROVE Left(t, scrollDisp(m, d))
  <2>1. Left(m, scrollDisp(m, d))
    BY <1>0, <1>2, <1>3, <1>4, scrollDispLeft, Zenon
  <2> QED BY <1>2, <2>1, CalmLeft, Zenon
<1> QED BY <1>1, <1>4, OutsideKeeps, Zenon

LEMMA KeyPressedKeeps ==
  ASSUME ScreenInv, KeyPressed
  PROVE  ScreenInv' /\ MainKept
<1> DEFINE m == [t EXCEPT !.thrown = FALSE]
<1>0. Sound(t) /\ (~busy => Rested(t))
  BY Zenon DEF ScreenInv
<1>1. Outside(showCursor(m))
  BY Zenon DEF KeyPressed
<1>2. Sound(m) /\ Frame(t, m) /\ (Rested(t) => Rested(m))
  BY <1>0, Calmed, Zenon
<1> HIDE DEF m
<1>3. ASSUME ~busy PROVE Left(t, showCursor(m))
  <2>1. Left(m, showCursor(m))
    BY <1>0, <1>2, <1>3, showCursorLeft, Zenon
  <2> QED BY <1>2, <2>1, CalmLeft, Zenon
<1> QED BY <1>1, <1>3, OutsideKeeps, Zenon

LEMMA BlurKeeps ==
  ASSUME ScreenInv, Blur
  PROVE  ScreenInv' /\ MainKept
<1> DEFINE c == FALSE
           m == [t EXCEPT !.cursorState = c, !.thrown = FALSE]
           y == t.y
<1>0. Sound(t) /\ (~busy => Rested(t)) /\ c \in BOOLEAN
  BY Zenon DEF ScreenInv
<1>1. Outside(refresh(m, y, y))
  BY Zenon DEF Blur
<1> HIDE DEF c
<1>2. Sound(m) /\ Frame(t, m) /\ (Rested(t) => Rested(m))
  BY <1>0, Calm, Zenon
<1>3. y \in Nat /\ (~t.wild => y < t.rows)
  BY <1>0, SoundTypes, SoundCursor, Zenon
<1> HIDE DEF m, y
<1>4. Refreshed(m, refresh(m, y, y), y, y)
  BY <1>2, <1>3, refreshRefreshed, Zenon DEF Frame
<1>5. ASSUME ~busy PROVE Left(t, refresh(m, y, y))
  <2>1. Left(m, refresh(m, y, y))
    BY <1>0, <1>2, <1>4, <1>5, RefreshedLeft, Zenon
  <2> QED BY <1>2, <2>1, CalmLeft, Zenon
<1> QED BY <1>1, <1>5, OutsideKeeps, Zenon

\* write() opens its bracket with a range that holds the cursor's row
LEMMA Opens ==
  ASSUME NEW s, Sound(s), Rested(s), ~s.wild, NEW d \in Nat, d <= s.ybase,
         NEW a \in Nat, NEW b \in Nat, a <= s.y, s.y <= b, b < s.rows
  PROVE  LET n == [s EXCEPT !.ydisp = d, !.from = a, !.to = b, !.thrown = FALSE]
         IN Sound(n) /\ Frame(s, n) /\ Ranged(n)
<1> DEFINE o == FALSE
           n == [s EXCEPT !.ydisp = d, !.from = a, !.to = b, !.thrown = o]
<1>0. o \in BOOLEAN /\ ~o
  OBVIOUS
<1>1. s \in TermRecord
  BY DEF Sound
<1> HIDE DEF o
<1>2. n \in TermRecord
  BY <1>0, <1>1, Zenon DEF TermRecord
<1>3. /\ Frame(s, n) /\ SameCursor(s, n) /\ SameCharset(s, n) /\ n.thrown = o
      /\ n.lines = s.lines /\ n.ybase = s.ybase /\ n.ydisp = d /\ n.from = a /\ n.to = b
      /\ n.dirty = s.dirty /\ n.edited = s.edited /\ n.shown = s.shown /\ n.early = s.early
  BY <1>1, Zenon DEF TermRecord, Frame, SameCursor, SameCharset
<1> HIDE DEF n
<1>4. BufferHolds(n.lines, n.ybase, n.ydisp, n.cols, n.rows, n.wild)
  BY <1>3, Zenon DEF Sound, BufferHolds, Frame
<1>5. Sound(n)
  BY <1>0, <1>2, <1>3, <1>4, Zenon DEF Sound, Frame, SameCursor, SameCharset
<1>6. Ranged(n)
  BY <1>3, Zenon DEF Ranged, Rested, Frame
<1>7. Sound(n) /\ Frame(s, n) /\ Ranged(n)
  BY <1>3, <1>5, <1>6, Zenon
<1> QED BY <1>7, Zenon DEF n, o

LEMMA BeginWriteKeeps ==
  ASSUME ScreenInv, BeginWrite
  PROVE  ScreenInv' /\ MainKept
<1> DEFINE y == t.y
           z == 0
           b == t.rows - 1
           o == FALSE
           s == [t EXCEPT !.from = y, !.to = y, !.thrown = o]
<1>0. /\ ~busy /\ ~t.wild /\ busy' = TRUE /\ family' = family /\ family \in Families
      /\ t' = (IF t.ybase # t.ydisp THEN maxRange([s EXCEPT !.ydisp = t.ybase]) ELSE s)
      /\ Sound(t) /\ Rested(t) /\ t.prefix = "" /\ t \in TermRecord
  BY Zenon DEF BeginWrite, ScreenInv, Sound
<1>1. /\ y \in Nat /\ y < t.rows /\ t.ybase \in Nat /\ t.ydisp \in Nat /\ t.ydisp <= t.ybase
      /\ z \in Nat /\ b \in Nat /\ z <= y /\ y <= b /\ b < t.rows /\ y <= y /\ t.ybase <= t.ybase
  <2> DEFINE r == t.rows
             yb == t.ybase
  <2>1. y \in Nat /\ y < r /\ yb \in Nat /\ t.ydisp \in Nat /\ t.ydisp <= yb /\ r \in Nat \ {0}
    BY <1>0, SoundTypes, SoundCursor, SoundLines, Zenon
  <2> HIDE DEF y, r, yb
  <2>2. /\ z \in Nat /\ r - 1 \in Nat /\ z <= y /\ y <= r - 1 /\ r - 1 < r /\ y <= y
        /\ yb <= yb
    BY <2>1
  <2> QED BY <2>1, <2>2, Zenon DEF r, yb
<1>2. CASE t.ybase # t.ydisp
  <2> DEFINE yb == t.ybase
             n == [t EXCEPT !.ydisp = yb, !.from = z, !.to = b, !.thrown = o]
  <2>1. maxRange([s EXCEPT !.ydisp = t.ybase]) = n
    <3> HIDE DEF o, y
    <3> QED BY <1>0, Zenon DEF TermRecord, maxRange
  <2>2. t' = n
    BY <1>0, <1>2, <2>1, Zenon
  <2>3. yb \in Nat /\ yb <= t.ybase
    BY <1>1, Zenon
  <2> HIDE DEF yb, z, b, y
  <2>4. Sound(n) /\ Frame(t, n) /\ Ranged(n)
    BY <1>0, <1>1, <2>3, Opens, Zenon DEF y
  <2> HIDE DEF n
  <2> QED BY <1>0, <2>2, <2>4, Zenon DEF ScreenInv, MainKept, Frame
<1>3. CASE t.ybase = t.ydisp
  <2> DEFINE yd == t.ydisp
             n == [t EXCEPT !.ydisp = yd, !.from = y, !.to = y, !.thrown = o]
  <2>1. s = n
    <3> HIDE DEF o, y
    <3> QED BY <1>0, Zenon DEF TermRecord
  <2>2. t' = n
    BY <1>0, <1>3, <2>1, Zenon
  <2>3. yd \in Nat /\ yd <= t.ybase
    BY <1>1, Zenon
  <2>4. Sound(n) /\ Frame(t, n) /\ Ranged(n)
    <3> HIDE DEF yd
    <3> QED BY <1>0, <1>1, <2>3, Opens, Zenon
  <2> HIDE DEF n
  <2> QED BY <1>0, <2>2, <2>4, Zenon DEF ScreenInv, MainKept, Frame
<1> QED BY <1>2, <1>3, Zenon

\* write() repaints its range, which holds the cursor's row
LEMMA EndWriteKeeps ==
  ASSUME ScreenInv, EndWrite
  PROVE  ScreenInv' /\ MainKept
<1> DEFINE y == t.y
           s == updateRange(t, y)
           a == s.from
           b == s.to
           n == refresh(s, a, b)
<1>0. /\ busy /\ busy' = FALSE /\ family' = family /\ family \in Families
      /\ t' = Settled(n) /\ Sound(t) /\ Ranged(t) /\ t.prefix = ""
  BY Zenon DEF EndWrite, ScreenInv
<1>1. y \in Nat /\ (~t.wild => y < t.rows)
  BY <1>0, SoundTypes, SoundCursor, Zenon
<1>2. Handled(t, s) /\ a = Min2(t.from, y) /\ b = Max2(t.to, y)
  BY <1>0, <1>1, updateRangeHandled, Zenon
<1>3. s.y = y
  BY <1>0, Zenon DEF updateRange, Sound, TermRecord
<1> HIDE DEF s
<1>4. Sound(s) /\ Ranged(s) /\ Frame(t, s)
  BY <1>0, <1>2, Zenon DEF Handled
<1>5. /\ a \in Nat /\ b \in Nat /\ (~s.wild => b < s.rows)
  BY <1>4, Zenon DEF Sound, TermRecord, Ranged
<1>6. a <= y /\ y <= b
  <2> DEFINE f == t.from
             e == t.to
  <2>1. f \in Nat /\ e \in Nat
    BY <1>0, Zenon DEF Sound, TermRecord
  <2> HIDE DEF f, e, y, a, b
  <2>2. Min2(f, y) <= y /\ y <= Max2(e, y)
    BY <1>1, <2>1 DEF Min2, Max2
  <2> QED BY <1>2, <2>2, Zenon DEF f, e
<1> HIDE DEF a, b, y
<1>7. Refreshed(s, n, a, b)
  BY <1>4, <1>5, refreshRefreshed, Zenon
<1> HIDE DEF n
<1>8. Rested(n)
  BY <1>3, <1>4, <1>6, <1>7, RangedRefreshed, Zenon DEF a, b
<1>9. Sound(n) /\ Frame(s, n)
  BY <1>7, Zenon DEF Refreshed
<1>10. Sound(t') /\ Frame(n, t') /\ Rested(t')
  BY <1>0, <1>8, <1>9, SettledSound, Zenon
<1> QED BY <1>0, <1>4, <1>9, <1>10, Zenon DEF ScreenInv, MainKept, Frame

(***************************************************************************)
(* The opened terminal.                                                    *)
(***************************************************************************)
\* the constructor's terminal, before open() draws it
LEMMA OpenedSound ==
  /\ Sound(Terminal0) /\ Rested(Terminal0) /\ Terminal0.prefix = ""
  /\ Terminal0.rows = Rows
<1> DEFINE z == 0
           e == <<>>
           f == FALSE
           p == ""
           cs == "none"
           h == {}
           raw == [cols |-> Cols, rows |-> Rows, x |-> z, y |-> z, ybase |-> z, ydisp |-> z,
                   lines |-> e, scrollTop |-> z, scrollBottom |-> z, tabs |-> h,
                   cursorState |-> f, modes |-> h, normal |-> e, prefix |-> p,
                   charset |-> cs, glevel |-> z, charsets |-> e,
                   savedX |-> z, savedY |-> z, savedCols |-> z, from |-> z, to |-> z,
                   dirty |-> h, edited |-> h, shown |-> h, early |-> h, wild |-> f,
                   thrown |-> f]
           c == Constructed(raw)
<1>0. Terminal0 = c
  BY Zenon DEF Terminal0
<1>1. /\ Cols \in Nat \ {0} /\ Rows \in Nat \ {0} /\ z \in Nat /\ z \in 0..3 /\ z \in Columns
      /\ f \in BOOLEAN /\ ~f /\ p \in {"", "?"} /\ cs \in Charsets
  BY ScreenAssumption DEF Columns, Charsets
<1>2. /\ h \in SUBSET Nat /\ h \in SUBSET Flags /\ e \in Seq(Nat) /\ e \in Seq(Aside)
      /\ e \in {<<>>} \cup [0..3 -> Charsets]
  OBVIOUS
<1>3. \A r \in h : FALSE
  OBVIOUS
<1> HIDE DEF z, e, f, p, cs, h
<1>4. raw \in RawRecord
  BY <1>1, <1>2, ZenonT(60) DEF RawRecord
<1>5. /\ raw.wild = f /\ raw.thrown = f /\ raw.dirty = h /\ raw.shown = h /\ raw.rows = Rows
      /\ raw.prefix = p
  BY Zenon
<1> HIDE DEF raw
<1>6. /\ Sound(c) /\ c.rows = raw.rows /\ SamePaint(raw, c)
  BY <1>1, <1>4, <1>5, Constructs, Zenon
<1>7. c.prefix = p
  BY <1>4, Zenon DEF Constructed, RawRecord, p
<1> HIDE DEF c
<1>8. Rested(c)
  BY <1>3, <1>5, <1>6, Zenon DEF Rested, SamePaint
<1> QED BY <1>0, <1>5, <1>6, <1>7, <1>8, Zenon DEF p

\* open() draws the empty screen and shows the cursor
LEMMA InitScreen ==
  ASSUME Init
  PROVE  ScreenInv
<1> DEFINE c == Terminal0
           a == 0
           b == Rows - 1
           m == refresh(c, a, b)
           n == showCursor(m)
<1>1. Sound(c) /\ Rested(c) /\ c.prefix = "" /\ c.rows = Rows
  BY OpenedSound
<1>2. t = Settled(n) /\ busy = FALSE /\ family \in Families
  BY Zenon DEF Init
<1>3. a \in Nat /\ b \in Nat /\ b < Rows
  BY ScreenAssumption
<1> HIDE DEF a, b, c
<1>4. Refreshed(c, m, a, b)
  BY <1>1, <1>3, refreshRefreshed, Zenon
<1> HIDE DEF m
<1>5. Left(c, m)
  BY <1>1, <1>4, RefreshedLeft, Zenon
<1>6. Sound(m) /\ Rested(m) /\ m.prefix = ""
  BY <1>1, <1>5, Zenon DEF Left
<1>7. Left(m, n)
  BY <1>6, showCursorLeft, Zenon
<1> HIDE DEF n
<1>8. Sound(n) /\ Rested(n) /\ n.prefix = ""
  BY <1>6, <1>7, Zenon DEF Left
<1>9. Sound(t) /\ Rested(t) /\ Frame(n, t)
  BY <1>2, <1>8, SettledSound, Zenon
<1> QED BY <1>2, <1>8, <1>9, Zenon DEF ScreenInv, Frame

(***************************************************************************)
(* The results.                                                            *)
(***************************************************************************)
\* ScreenInv is inductive, and a step keeps the main screen put aside
LEMMA StepKeeps ==
  ASSUME ScreenInv, [Next]_vars
  PROVE  ScreenInv' /\ MainKept
<1>1. CASE UNCHANGED vars
  <2>1. t' = t /\ busy' = busy /\ family' = family
    BY <1>1, Zenon DEF vars
  <2> QED BY <2>1, Zenon DEF ScreenInv, MainKept
<1>2. CASE BeginWrite \/ EndWrite
  BY <1>2, BeginWriteKeeps, EndWriteKeeps, Zenon
<1>3. CASE Typing \/ Editing \/ Moving
  BY <1>3, TypingKeeps, EditingKeeps, MovingKeeps, Zenon
<1>4. CASE Scrolling \/ Tabbing \/ Modes
  BY <1>4, ScrollingKeeps, TabbingKeeps, ModesKeeps, Zenon
<1>5. CASE Resize \/ ScrollView \/ KeyPressed \/ Blur
  BY <1>5, ResizeKeeps, ScrollViewKeeps, KeyPressedKeeps, BlurKeeps, Zenon
<1> QED BY <1>1, <1>2, <1>3, <1>4, <1>5, Zenon DEF Next

LEMMA Invariant == Spec => []ScreenInv
<1>1. Init => ScreenInv
  BY InitScreen
<1>2. ScreenInv /\ [Next]_vars => ScreenInv'
  BY StepKeeps
<1> QED BY <1>1, <1>2, PTL DEF Spec

LEMMA WideLines ==
  ASSUME NEW l, NEW c \in Nat, l \in Seq(Wide(c))
  PROVE  \A i \in DOMAIN l : l[i] \in Nat /\ l[i] >= c
<1>1. \A i \in DOMAIN l : l[i] \in Wide(c)
  OBVIOUS
<1> QED BY <1>1, Zenon DEF Wide

\* the invariant is what ScreenHolds says, and more
LEMMA InvHolds ==
  ASSUME ScreenInv
  PROVE  ScreenHolds
<1>0. /\ Sound(t) /\ t \in TermRecord /\ t.prefix = "" /\ busy \in BOOLEAN /\ family \in Families
      /\ Len(t.normal) <= 1 /\ AsideHolds(t.normal, t.cols, t.rows, t.wild)
      /\ t.charset = t.charsets[t.glevel] /\ (~t.wild => ~t.thrown)
  BY Zenon DEF ScreenInv, Sound
<1>1. /\ t.lines \in Seq(Wide(t.cols)) /\ t.ydisp <= t.ybase /\ t.ybase < Scrollback
      /\ (~t.wild => Len(t.lines) = t.ybase + t.rows)
  BY <1>0, SoundLines, Zenon
<1>2. t.cols \in Nat
  BY <1>0, SoundTypes
<1>3. \A i \in DOMAIN t.lines : t.lines[i] \in Nat /\ t.lines[i] >= t.cols
  BY <1>1, <1>2, WideLines, Zenon
<1>4. TypeOK
  <2>1. t.x \in Nat \cup {NaN} /\ t.savedX \in Nat \cup {NaN}
    BY <1>0, Zenon DEF TermRecord, Columns
  <2>2. \A i \in t.tabs : i \in Nat
    BY <1>0, Zenon DEF TermRecord
  <2>3. /\ t.cols \in Nat \ {0} /\ t.rows \in Nat \ {0} /\ t.y \in Nat /\ t.ybase \in Nat
        /\ t.ydisp \in Nat /\ t.scrollTop \in Nat /\ t.scrollBottom \in Nat
        /\ t.modes \subseteq Flags /\ t.charset \in Charsets
        /\ t.charsets \in [0..3 -> Charsets] /\ t.glevel \in 0..3 /\ t.savedY \in Nat
        /\ t.cursorState \in BOOLEAN /\ t.wild \in BOOLEAN /\ t.thrown \in BOOLEAN
    BY <1>0, Zenon DEF TermRecord
  <2> QED BY <1>0, <1>3, <2>1, <2>2, <2>3, Zenon DEF TypeOK
<1>5. RowsOnScreen
  BY <1>0, SoundCursor, Zenon DEF RowsOnScreen
<1>6. BufferFits
  BY <1>1, Zenon DEF BufferFits
<1>7. MainScreenFits
  <2> SUFFICES ASSUME ~t.wild, t.normal # <<>>
               PROVE  LET m == t.normal[1]
                      IN /\ Len(m.lines) = m.ybase + t.rows /\ m.y < t.rows
                         /\ m.scrollBottom < t.rows
                         /\ \A i \in DOMAIN m.lines : m.lines[i] >= t.cols
    BY Zenon DEF MainScreenFits
  <2> DEFINE m == t.normal[1]
             l == m.lines
  <2>1. /\ BufferHolds(l, m.ybase, m.ydisp, t.cols, t.rows, t.wild)
        /\ CursorHolds(m.y, m.scrollTop, m.scrollBottom, t.rows, t.wild)
    BY <1>0, Zenon DEF AsideHolds
  <2>2. l \in Seq(Wide(t.cols)) /\ Len(l) = m.ybase + t.rows
    BY <2>1, Zenon DEF BufferHolds
  <2>3. m.y < t.rows /\ m.scrollBottom < t.rows
    BY <2>1, Zenon DEF CursorHolds
  <2>4. \A i \in DOMAIN l : l[i] >= t.cols
    <3> HIDE DEF l
    <3> QED BY <1>2, <2>2, WideLines, Zenon
  <2> QED BY <2>2, <2>3, <2>4, Zenon
<1>8. LinesComplete /\ NoThrow /\ CharsetCurrent
  BY <1>0, <1>3, Zenon DEF LinesComplete, NoThrow, CharsetCurrent
<1> QED BY <1>4, <1>5, <1>6, <1>7, <1>8, Zenon DEF ScreenHolds

\* Whatever the host sends and the user does, the terminal object holds together:
\* its fields keep their types, the cursor's row and the margins stay on the screen
\* (its column may lie behind the last, or be NaN), the buffer is the scrollback and
\* one complete line per row, the main screen put aside fits the terminal, no handler
\* dereferences a line that does not exist and characters are translated with the set
\* designated to the level in use.
THEOREM TerminalHolds == Spec => []ScreenHolds
<1>1. ScreenInv => ScreenHolds
  BY InvHolds
<1> QED BY <1>1, Invariant, PTL

\* When write() has returned, the page shows the buffer (rows excepted that ICH,
\* DCH, ECH, REP or RI above the top margin changed) and one cursor: the range
\* that the handlers of a chunk stretch always covers what they changed.
THEOREM PageRepainted == Spec => []Repainted
<1>1. ScreenInv => Repainted
  BY Zenon DEF ScreenInv, Rested, Repainted, Painted, OneCursor
<1> QED BY <1>1, Invariant, PTL

\* No handler replaces the main screen that the alternate one has put aside: it
\* is given back, or dropped by a reset or a resize, as it was taken.
THEOREM AsideKept == Spec => MainScreenKept
<1>1. ScreenInv /\ [Next]_vars => [t.normal # <<>> /\ t'.normal # <<>> => t'.normal = t.normal]_vars
  BY StepKeeps, Zenon DEF MainKept
<1> QED BY <1>1, Invariant, PTL DEF Spec, MainScreenKept
=============================================================================
