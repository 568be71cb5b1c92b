------------------------------ MODULE TermKeys ------------------------------
(***************************************************************************)
(* The keyboard modes of the telnet page's terminal (telnet/term.js): keys *)
(* go to the host, or, after the prefix Ctrl-A, to the terminal, which has *)
(* a selection mode with motions, a visual selection and a search.         *)
(*                                                                         *)
(* k is the Terminal object as far as keys change it.  Rows of the buffer  *)
(* and columns count from 0.  A line is a function from columns, counted   *)
(* from 1, to cells, for a search prompt can leave holes behind the last   *)
(* column; marked is the set of cells drawn as selected.  While a          *)
(* selection is on, write() is replaced by a function that does nothing:   *)
(* what the host sends is lost.  Characters are one cell wide: that a copy *)
(* passes over the second cell of a wide one is left out.                  *)
(*                                                                         *)
(* Fields no handler reads: text (the lines as the host wrote them),       *)
(* before (what enterSelect found), found (how the last search ended),     *)
(* copied and ref (what y copied, what it should have), thrown (the key    *)
(* ended in a TypeError), parked (a selection was begun with the cursor    *)
(* behind the last column), stale (a timer to leave the visual mode was    *)
(* overtaken).                                                             *)
(***************************************************************************)
EXTENDS Integers, Sequences, SequencesExt, FiniteSetsExt

CONSTANTS Width, Height,   \* size of the screen
          Texts,        \* what the buffer can hold: scrollback and screen
          Users,        \* what users press: for each, a set of keys
          PromptLen,    \* length of 'Search: ' (8)
          Entries,      \* bound: what is searched for, with all prefixes
          MaxColumn,    \* bound: the cursor in a search prompt
          MaxCopies     \* bound: pending Ctrl-C timers

ASSUME KeysAssumption ==
    /\ Width \in Nat \ {0} /\ Height \in Nat \ {0, 1} /\ PromptLen \in Nat
    /\ <<>> \in Entries /\ MaxColumn \in Nat /\ MaxCopies \in Nat
    /\ \A t \in Texts : /\ t \in Seq(Seq(STRING)) /\ Len(t) >= Height
                        /\ \A i \in DOMAIN t : Len(t[i]) = Width

VARIABLES k, user
keysVars == <<k, user>>

MinOf(a, b) == IF a < b THEN a ELSE b
MaxOf(a, b) == IF a < b THEN b ELSE a
Clip(a, lo, hi) == MaxOf(lo, MinOf(a, hi))

ybase(s) == Len(s.text) - Height
LastRow(s) == Len(s.text) - 1
Row(s) == s.ydisp + s.y                         \* the cursor's row of the buffer
Cell(s, r, c) == s.lines[r + 1][c + 1]
Blank(s, r, c) == Cell(s, r, c) = " "
BlankRow(s, r) == \A c \in 0..Width - 1 : Blank(s, r, c)
Thrown(s) == [s EXCEPT !.thrown = TRUE]

scrollView(s, d) == [s EXCEPT !.ydisp = Clip(@ + d, 0, ybase(s))]
\* the row r of the buffer under the cursor, scrolling no further than needed
At(s, r, x) ==
    LET yd == IF r < s.ydisp THEN r ELSE MaxOf(s.ydisp, r - Height + 1)
    IN [s EXCEPT !.x = x, !.y = r - yd, !.ydisp = yd]

(***************************************************************************)
(* Selections.  The cells from one end to the other in reading order; the  *)
(* ends are swapped when they come in the other order.                     *)
(***************************************************************************)
Region(sel) ==
    LET swap == sel.y2 < sel.y1 \/ (sel.y1 = sel.y2 /\ sel.x2 < sel.x1)
        a == IF swap THEN <<sel.y2, sel.x2>> ELSE <<sel.y1, sel.x1>>
        b == IF swap THEN <<sel.y1, sel.x1>> ELSE <<sel.y2, sel.x2>>
    IN {q \in (a[1]..b[1]) \X (0..Width) :
           /\ q[1] = a[1] => q[2] >= a[2]
           /\ IF q[1] = b[1] THEN q[2] <= b[2] ELSE q[2] < Width}

\* its columns in a row, and its rows in order
Span(sel, r) == {q[2] : q \in {u \in Region(sel) : u[1] = r}}
SpanRows(sel) ==
    LET rows == {q[1] : q \in Region(sel)}
    IN [i \in 1..Max(rows) - Min(rows) + 1 |-> Min(rows) + i - 1]

OffLine(cells) == {q \in cells : q[2] >= Width}

UnmarkNothing(s, cells) == s
Unmark(s, cells) == [s EXCEPT !.marked = @ \ cells]
AnchorMoved(s, x1, y1) == <<x1, y1>>
Anchor(s, x1, y1) == IF s.sel = <<>> THEN <<x1, y1>> ELSE <<s.sel[1].x1, s.sel[1].y1>>

\* the first end is the old selection's, as far as it is not below the view
selectText(s, x1, x2, y1, y2) ==
    LET bottom == s.ydisp + Height - 1
        old == IF s.sel = <<>> THEN {} ELSE Region(s.sel[1])
        a == Anchor(s, x1, y1)
        new == [x1 |-> a[1], y1 |-> Clip(a[2], 0, bottom), x2 |-> x2, y2 |-> Clip(y2, 0, bottom)]
        unmarked == Unmark(s, old)
        done == [unmarked EXCEPT !.sel = <<new>>,
                                 !.marked = @ \cup (Region(new) \ OffLine(Region(new)))]
    IN IF OffLine(old) # {} THEN Thrown(unmarked)
       ELSE IF OffLine(Region(new)) # {} THEN Thrown(done) ELSE done

CutNewlineAlways(s, all, r, c) == Front(all)
CutNewline(s, all, r, c) ==
    IF \E i \in c..Width - 1 : ~Blank(s, r, i) THEN Front(all) ELSE all

\* one row from column a to b: buf holds blanks back until a character follows
grabRow(s, r, a, b) ==
    LET got[n \in 0..b - a + 1] ==
            IF n = 0 THEN [out |-> <<>>, buf |-> <<>>]
            ELSE LET ch == Cell(s, r, a + n - 1)
                     was == got[n - 1]
                 IN IF ch = " " THEN [out |-> was.out, buf |-> Append(was.buf, ch)]
                    ELSE [out |-> was.out \o was.buf \o <<ch>>, buf |-> <<>>]
    IN Append(got[b - a + 1].out, "\n")

\* the last newline goes when a character follows the selection's end in its line
grabText(s, sel) ==
    LET rows == SpanRows(sel)
        to(r) == Max(Span(sel, r))
        all == FlattenSeq([i \in DOMAIN rows |->
                             grabRow(s, rows[i], Min(Span(sel, rows[i])), to(rows[i]))])
    IN CutNewline(s, all, Last(rows), to(Last(rows)))

(***************************************************************************)
(* Entering and leaving the modes                                          *)
(***************************************************************************)
enterSelect(s) ==
    [s EXCEPT !.real = <<[x |-> s.x, y |-> s.y, ydisp |-> s.ydisp, lines |-> s.lines]>>,
              !.before = <<s.x, s.y, s.ydisp, s.lines>>,
              !.parked = @ \/ s.x = Width,
              !.selectMode = TRUE, !.visualMode = FALSE]

leaveSelectScrolled(s) ==
    [s EXCEPT !.x = s.real[1].x, !.y = s.real[1].y, !.lines = s.real[1].lines, !.marked = {},
              !.real = <<>>, !.preVisual = <<>>, !.selectMode = FALSE, !.visualMode = FALSE]
leaveSelect(s) ==
    [s EXCEPT !.x = s.real[1].x, !.y = s.real[1].y, !.ydisp = s.real[1].ydisp,
              !.lines = s.real[1].lines, !.marked = {},
              !.real = <<>>, !.preVisual = <<>>, !.selectMode = FALSE, !.visualMode = FALSE,
              !.stale = FALSE]

\* a copy of the buffer has no marks
enterVisual(s) ==
    LET n == selectText([s EXCEPT !.preVisual = <<s.lines>>], s.x, s.x, Row(s), Row(s))
    IN [n EXCEPT !.visualMode = ~n.thrown]

\* a second leave has no copy to restore: lines becomes undefined
leaveVisual(s) ==
    IF s.real = <<>> THEN Thrown(s)
    ELSE IF s.preVisual = <<>>
    THEN Thrown([s EXCEPT !.lines = <<>>, !.sel = <<>>, !.visualMode = FALSE])
    ELSE [s EXCEPT !.lines = s.preVisual[1], !.marked = {}, !.preVisual = <<>>,
                   !.sel = <<>>, !.visualMode = FALSE]

PutCell(l, c, ch) == [i \in DOMAIN l \cup {c + 1} |-> IF i = c + 1 THEN ch ELSE l[i]]
PromptLine(l) == [i \in DOMAIN l \cup 1..PromptLen |-> IF i <= PromptLen THEN ":" ELSE l[i]]
\* the prompt is on the last row shown, wherever the view is by now
Bottom(s) == s.ydisp + Height
Prompted(s) == [s.lines EXCEPT ![Bottom(s)] = PromptLine(@)]
Typed(s, c, ch) == [s.lines EXCEPT ![Bottom(s)] = PutCell(@, c, ch)]

enterSearch(s, down) ==
    [s EXCEPT !.lines = Prompted(s),
              !.entry = <<>>, !.searchMode = TRUE, !.searchDown = down,
              !.preSearch = <<[lines |-> s.lines, x |-> s.x, y |-> s.y]>>,
              !.y = Height - 1, !.x = PromptLen]

leaveSearchAsIs(s) == [s EXCEPT !.searchMode = FALSE, !.preSearch = <<>>]
leaveSearch(s) ==
    IF s.preSearch = <<>> THEN [s EXCEPT !.searchMode = FALSE]
    ELSE [s EXCEPT !.searchMode = FALSE, !.lines = s.preSearch[1].lines,
                   !.x = s.preSearch[1].x, !.y = s.preSearch[1].y, !.preSearch = <<>>,
                   !.stale = FALSE]

(***************************************************************************)
(* Motions of the selection mode.  A motion gives the new place of the     *)
(* cursor; when the visual mode is on the selection follows it.            *)
(***************************************************************************)
Follow(s, n, x1) ==
    IF s.visualMode THEN selectText(n, x1, n.x, Row(s), Row(n)) ELSE n

HalfDown(s) ==
    IF s.ydisp = ybase(s) THEN [s EXCEPT !.y = MinOf(@ + (Height - 1) \div 2, Height - 1)]
    ELSE scrollView(s, (Height - 1) \div 2)
HalfUp(s) ==
    IF s.ydisp = 0 THEN [s EXCEPT !.y = MaxOf(@ - (Height \div 2), 0)]    \* y - (rows-1)/2 cut off
    ELSE scrollView(s, -((Height - 1) \div 2))

Up(s) == IF s.y = 0 THEN scrollView(s, -1) ELSE [s EXCEPT !.y = @ - 1]
DownTooFar(s) == [s EXCEPT !.y = @ + 1]
Down(s) == IF s.y + 1 >= Height THEN scrollView([s EXCEPT !.y = Height - 1], 1)
           ELSE [s EXCEPT !.y = @ + 1]

RightTooFar(s) == [s EXCEPT !.x = MinOf(@ + 1, Width)]
Right(s) == [s EXCEPT !.x = MinOf(@ + 1, Width - 1)]

\* w: the next word, or a character in the last column; else the buffer's end
NextWord(s) ==
    LET p0 == Row(s) * Width + s.x
        blank(p) == Blank(s, p \div Width, p % Width)
        first == IF s.x >= Width THEN p0 - 1 ELSE p0
        stops == {p \in first..(LastRow(s) + 1) * Width - 1 :
                     /\ ~blank(p)
                     /\ p % Width = Width - 1 \/ \E b \in p0..p - 1 : blank(b)}
    IN IF stops = {} THEN At(s, LastRow(s), s.x)
       ELSE At(s, Min(stops) \div Width, Min(stops) % Width)

\* e: the end of a word behind the cursor
WordEnd(s) ==
    LET p0 == Row(s) * Width + MinOf(s.x + 1, Width - 1)
        blank(p) == Blank(s, p \div Width, p % Width)
        stops == {p \in p0..(LastRow(s) + 1) * Width - 1 :
                     /\ ~blank(p)
                     /\ p % Width = Width - 1 \/ blank(p + 1)}
    IN IF stops = {} THEN At(s, LastRow(s), 0)
       ELSE At(s, Min(stops) \div Width, Min(stops) % Width)

\* b: the start of a word before the cursor, row by row upwards
PreviousWord(s) ==
    LET from(r) == IF r = Row(s) THEN s.x ELSE Width - 1
        inside(r) == LET x == from(r) IN x > 0 /\ ~Blank(s, r, x) /\ ~Blank(s, r, x - 1)
        starts(r) == {c \in 0..from(r) :
                        /\ ~Blank(s, r, c) /\ (c = 0 \/ Blank(s, r, c - 1))
                        /\ inside(r) \/ \E b \in c + 1..from(r) : Blank(s, r, b)}
        rows == {r \in 0..Row(s) : starts(r) # {}}
    IN IF s.x >= Width THEN Thrown(s)
       ELSE IF rows = {} THEN At(s, 0, 0) ELSE At(s, Max(rows), Max(starts(Max(rows))))

\* { and }: the first blank row behind a full one
Paragraph(s, up) ==
    LET start == IF up THEN MaxOf(Row(s) - 1, 0) ELSE MinOf(Row(s) + 1, LastRow(s))
        scanned == IF up THEN 0..start ELSE start..LastRow(s)
        gaps == {r \in scanned : BlankRow(s, r) /\
                    \E f \in IF up THEN r + 1..start ELSE start..r - 1 : ~BlankRow(s, f)}
    IN IF gaps = {} THEN At(s, IF up THEN 0 ELSE LastRow(s), 0)
       ELSE At(s, IF up THEN Max(gaps) ELSE Min(gaps), 0)

FirstInk(s) ==
    LET ink == {c \in 0..Width - 1 : ~Blank(s, Row(s), c)}
    IN IF ink = {} THEN Width - 1 ELSE Min(ink)

LastInk(s) ==
    LET ink == {c \in 0..Width - 1 : ~Blank(s, Row(s), c)}
    IN IF ink = {} THEN 0
       ELSE IF s.visualMode /\ Max(ink) < Width - 1 THEN Max(ink) + 1 ELSE Max(ink)

(***************************************************************************)
(* Search.  A row is tried from one column on; behind a partial match of i *)
(* cells the next try starts i + 1 cells further on.                       *)
(***************************************************************************)
Matched(s, r, x) ==
    LET ok(i) == \A j \in 0..i - 1 : x + j < Width /\ Cell(s, r, x + j) = s.entry[j + 1]
    IN Max({i \in 0..Len(s.entry) : ok(i)})

FindInRow(s, r, x0) ==
    LET try[x \in 0..2 * Width + Len(s.entry)] ==
            IF x >= Width THEN -1
            ELSE IF Matched(s, r, x) = Len(s.entry) THEN x
            ELSE try[x + Matched(s, r, x) + 1]
    IN try[x0]

\* the rows in the order they are tried: the cursor's first, then on in the
\* direction of the search and, wrapped, once more from the other end
RowsTriedOnce(s, up) ==
    IF up THEN [i \in 1..Row(s) + 1 |-> Row(s) + 1 - i]
    ELSE [i \in 1..LastRow(s) - Row(s) + 1 |-> Row(s) + i - 1]
RowsTried(s, up) ==
    IF up THEN [i \in 1..Row(s) + 1 |-> Row(s) + 1 - i]
               \o [i \in 1..LastRow(s) + 1 |-> LastRow(s) + 1 - i]
    ELSE [i \in 1..LastRow(s) - Row(s) + 1 |-> Row(s) + i - 1]
         \o [i \in 1..LastRow(s) + 1 |-> i - 1]

ShowUnscrolled(s, r, x) == [s EXCEPT !.x = x, !.y = MaxOf(0, r - ybase(s))]
Show(s, r, x) ==
    LET yb == MinOf(r, ybase(s)) IN [s EXCEPT !.x = x, !.y = r - yb, !.ydisp = yb]

search(s, up) ==
    LET rows == RowsTried(s, up)
        col(i) == FindInRow(s, rows[i], IF i = 1 THEN s.x + 1 ELSE 0)
        hits == {i \in DOMAIN rows : col(i) >= 0}
        n == [Show(s, rows[Min(hits)], col(Min(hits))) EXCEPT !.found = "yes"]
    IN IF hits = {} THEN [s EXCEPT !.found = "no"] ELSE Follow(s, n, s.x)

Printing == {"a", "b", "n", "v", "q"}             \* bound: these characters

keySearch(s, key) ==
    CASE key = "ESC" -> leaveSearch(s)
      [] key = "CR" \/ (~s.searchMode /\ key \in {"n", "N"}) ->
            LET left == leaveSearch(s)
            IN IF s.entry = <<>> THEN left
               ELSE search(left, IF key = "N" THEN s.searchDown ELSE ~s.searchDown)
      [] key = "BS" ->          \* reads the cell, which must be there
            LET c == PromptLen + Len(s.entry) - 1
            IN IF s.entry = <<>> THEN s
               ELSE IF c + 1 \notin DOMAIN s.lines[Bottom(s)]
               THEN Thrown([s EXCEPT !.entry = Front(@)])
               ELSE [s EXCEPT !.lines = Typed(s, c, " "), !.entry = Front(@), !.x = @ - 1]
      [] s.searchMode /\ key \in Printing ->
            [s EXCEPT !.lines = Typed(s, PromptLen + Len(s.entry), key),
                      !.entry = Append(@, key), !.x = @ + 1]
      [] OTHER -> s

(***************************************************************************)
(* Keys                                                                    *)
(***************************************************************************)
Motions == {"^D", "^U", "^F", "^B", "k", "j", "h", "l", "w", "b", "e", "^", "0", "$",
            "g", "G", "H", "M", "L", "{", "}"}

Moved(s, key) ==
    CASE key = "^D" -> HalfDown(s)
      [] key = "^U" -> HalfUp(s)
      [] key = "^F" -> scrollView(s, Height - 1)
      [] key = "^B" -> scrollView(s, -(Height - 1))
      [] key = "k" -> Up(s)
      [] key = "j" -> Down(s)
      [] key = "h" -> [s EXCEPT !.x = MaxOf(@ - 1, 0)]
      [] key = "l" -> Right(s)
      [] key = "w" -> NextWord(s)
      [] key = "b" -> PreviousWord(s)
      [] key = "e" -> WordEnd(s)
      [] key = "^" -> [s EXCEPT !.x = FirstInk(s)]
      [] key = "0" -> [s EXCEPT !.x = 0]
      [] key = "$" -> [s EXCEPT !.x = LastInk(s)]
      [] key = "g" -> [s EXCEPT !.x = 0, !.y = 0, !.ydisp = 0]
      [] key = "G" -> [s EXCEPT !.x = 0, !.y = Height - 1, !.ydisp = ybase(s)]
      [] key = "H" -> [s EXCEPT !.x = 0, !.y = 0]
      [] key = "M" -> [s EXCEPT !.x = 0, !.y = Height \div 2]
      [] key = "L" -> [s EXCEPT !.x = 0, !.y = Height - 1]
      [] OTHER -> Paragraph(s, key = "{")

keySelect(s, key) ==
    CASE s.searchMode \/ key \in {"n", "N"} -> keySearch(s, key)
      [] ~s.searchMode /\ key \in Motions ->
            LET n == Moved(s, key) IN IF n.thrown THEN n ELSE Follow(s, n, s.x)
      [] ~s.searchMode /\ key = "v" ->
            IF s.visualMode THEN leaveVisual(s) ELSE enterVisual(s)
      [] ~s.searchMode /\ key = "y" /\ s.visualMode ->
            leaveVisual([s EXCEPT !.copied = grabText(s, s.sel[1]), !.ref = <<s.sel[1], s.lines>>])
      [] ~s.searchMode /\ key \in {"q", "ESC"} ->
            IF s.visualMode THEN leaveVisual(s) ELSE leaveSelect(s)
      [] ~s.searchMode /\ key \in {"/", "?"} /\ ~s.visualMode -> enterSearch(s, key = "/")
      [] OTHER -> s

\* the keys that reach the terminal by keydown, the others by keypress
ByKeyDown == {"ESC", "CR", "BS", "^A", "^B", "^C", "^D", "^F", "^U", "^V"}

\* after the prefix a character is a command, a control key only ends it
keyPrefix(s, key) ==
    CASE key = "k" -> [s EXCEPT !.alive = FALSE]
      [] key = "[" -> enterSelect(s)
      [] OTHER -> s                     \* requests to a window manager, if any

Pressed(s, key) ==
    IF s.prefixMode /\ key # "^C"
    THEN LET n == [s EXCEPT !.prefixMode = FALSE]
         IN IF key \in ByKeyDown THEN n ELSE keyPrefix(n, key)
    ELSE IF key = "^A" /\ ~s.selectMode THEN [s EXCEPT !.prefixMode = TRUE]
    ELSE IF key = "^C" /\ (s.prefixMode \/ s.selectMode)
    THEN [s EXCEPT !.timers = IF s.visualMode THEN @ + 1 ELSE @]
    ELSE IF s.selectMode THEN keySelect(s, key)
    ELSE s                              \* goes to the host, at once

(***************************************************************************)
(* Steps                                                                   *)
(***************************************************************************)
KeyStep(s) == k' = s /\ UNCHANGED user
Calm(s) == [s EXCEPT !.stale = @ /\ s.selectMode, !.before = IF s.selectMode THEN @ ELSE <<>>,
                     !.thrown = FALSE, !.found = "none", !.copied = <<>>, !.ref = <<>>]

KeysInit == /\ k \in {[x |-> 0, y |-> 0, ydisp |-> Len(txt) - Height, lines |-> txt, text |-> txt,
                marked |-> {}, sel |-> <<>>, prefixMode |-> FALSE, selectMode |-> FALSE,
                visualMode |-> FALSE, searchMode |-> FALSE, searchDown |-> FALSE,
                entry |-> <<>>, real |-> <<>>, preVisual |-> <<>>, preSearch |-> <<>>,
                timers |-> 0, alive |-> TRUE, thrown |-> FALSE, parked |-> FALSE,
                stale |-> FALSE, before |-> <<>>, found |-> "none", copied |-> <<>>,
                ref |-> <<>>] : txt \in Texts}
        /\ user \in Users

Key == \E key \in user :
    LET n == Pressed(Calm(k), key)
    IN /\ Calm(k).stale => key = (IF k.searchMode THEN "ESC" ELSE "q")   \* bound: others throw
       /\ n.entry \in Entries /\ n.timers <= MaxCopies                    \* bounds
       /\ n.searchMode => n.x <= MaxColumn                                \* bound
       /\ KeyStep(n)

\* Ctrl-Up, Ctrl-Down, Shift-PageUp and Shift-PageDown scroll in every mode
ScrollKey == \E d \in {-1, 1} : ~Calm(k).stale /\ KeyStep(scrollView(Calm(k), d))

CopyTimer == /\ k.timers > 0
             /\ KeyStep(leaveVisual([Calm(k) EXCEPT !.timers = @ - 1, !.stale = ~k.visualMode]))

\* output of the host: other text, another cursor; a full reset in it ends the
\* prefix mode.  While a selection is on nothing is written.
HostOutput ==
    /\ ~k.selectMode /\ k.alive
    /\ \E txt \in Texts, x \in {0, Width}, p \in {k.prefixMode, FALSE} :
         \* bound: the cursor at an end of the last row
         KeyStep([Calm(k) EXCEPT !.lines = txt, !.text = txt, !.ydisp = Len(txt) - Height,
                              !.x = x, !.y = Height - 1, !.prefixMode = p])

KeysNext == Key \/ ScrollKey \/ CopyTimer \/ HostOutput

KeysSpec == KeysInit /\ [][KeysNext]_keysVars

(***************************************************************************)
(* Properties                                                              *)
(***************************************************************************)
\* the cursor of the selection mode stays on the screen and the view in the
\* buffer, whatever motions, searches and scrolls are combined; the modes nest
KeysTypeOK ==
    /\ k.ydisp \in 0..ybase(k)
    /\ k.y \in 0..Height - 1
    /\ IF k.searchMode THEN k.x >= PromptLen + Len(k.entry) ELSE k.x \in 0..Width
    /\ k.selectMode <=> k.real # <<>>
    /\ k.visualMode \/ k.searchMode => k.selectMode
    /\ ~(k.prefixMode /\ k.selectMode) /\ ~(k.visualMode /\ k.searchMode)

\* leaving the selection mode, from whatever visual selections and searches
\* were nested in it, shows the screen exactly as it was entered
SelectLeavesNoTrace ==
    [][k.selectMode /\ ~k'.selectMode =>
          /\ <<k'.x, k'.y, k'.ydisp, k'.lines>> = k'.before
          /\ k'.marked = {}]_keysVars

\* outside of a search the buffer holds what the host wrote: no prompt and no
\* mark is left in the copies that the modes save and restore
PromptGone == ~k.searchMode /\ ~k.stale => k.lines = k.text

\* the marked cells are exactly those between the ends of the selection,
\* however it was turned around or scrolled; without one there are none
SelectionShown ==
    ~k.parked /\ ~k.stale =>
       k.marked = IF k.visualMode THEN Region(k.sel[1]) ELSE {}

\* the end where the selection was begun stays, unless it is scrolled out of
\* the view downwards
AnchorStays ==
    [][k.visualMode /\ k'.visualMode /\ k.sel[1].y1 < k'.ydisp + Height =>
          /\ k'.sel[1].x1 = k.sel[1].x1
          /\ k'.sel[1].y1 = k.sel[1].y1]_keysVars

\* no key ends in a TypeError, but in three cases: a selection begun behind the
\* last column, a Ctrl-C timer overtaken by another end of the visual mode, and
\* a search prompt that went on behind the last column on another row
Overlong(s) == s.searchMode /\ PromptLen + Len(s.entry) >= Width
KeysNeverThrow == k.thrown => k.parked \/ k.stale \/ Overlong(k)

\* a successful search puts the cursor on a match, scrolled into the view
LandsOnMatch ==
    k.found = "yes" =>
       \A j \in DOMAIN k.entry : Cell(k, Row(k), k.x + j - 1) = k.entry[j]

\* a search for a single character fails only if the buffer has none
MissIsAbsent ==
    k.found = "no" /\ Len(k.entry) = 1 =>
       \A r \in 0..LastRow(k), c \in 0..Width - 1 : Cell(k, r, c) # k.entry[1]

\* the reference for y: the selected part of each line without its blank end,
\* and no newline behind the last one if its line goes on behind the selection
Trimmed(lines, r, a, b) ==
    LET ink == {c \in a..b : lines[r + 1][c + 1] # " "}
    IN IF ink = {} THEN <<>> ELSE SubSeq(lines[r + 1], a + 1, Max(ink) + 1)
RefText(sel, lines) ==
    LET rows == SpanRows(sel)
        part(r) == Append(Trimmed(lines, r, Min(Span(sel, r)), Max(Span(sel, r))), "\n")
        all == FlattenSeq([i \in DOMAIN rows |-> part(rows[i])])
        end == Last(rows)
    IN IF Trimmed(lines, end, Max(Span(sel, end)), Width - 1) = <<>> THEN all ELSE Front(all)

\* y copies that text, whichever end of the selection comes first
CopiesSelection == k.ref # <<>> => k.copied = RefText(k.ref[1], k.ref[2])

\* what the modes change is undone step by step, and what they keep stays
ModesRestore == SelectLeavesNoTrace /\ AnchorStays

\* the cells shown as selected, or lent to the prompt, are what the nested
\* modes say, and no key reads a cell that is not there
SelectionHolds == KeysTypeOK /\ PromptGone /\ SelectionShown /\ KeysNeverThrow

\* n, N and the search prompt find what is there and nothing else
SearchFinds == LandsOnMatch /\ MissIsAbsent
=============================================================================
